---- MODULE Spec2Model ----
(***************************************************************************)
(* Resource-coordination layer of web3-airdrop-tools.                      *)
(*                                                                         *)
(*   Spec      the task/result queue protocol: the Dispatcher              *)
(*             (main.py), the Workers (worker.py) and the dashboard        *)
(*             (admin-ui/app.py) around the two Redis lists                *)
(*             task_queue and result_queue.                                *)
(*   FairSpec  Spec with the scheduling of the Dispatcher process.         *)
(*   SpecPool  the proxy pool of one process (proxy_manager.py).           *)
(*                                                                         *)
(* Redis commands are atomic and, in Spec, succeed; a worker process may   *)
(* stop at any point (Crash).                                              *)
(***************************************************************************)
EXTENDS Integers, Sequences, FiniteSets, TLC

VARIABLES
    \* ---- Redis
    task_queue,     \* list 'task_queue'
    result_queue,   \* list 'result_queue'
    \* ---- AirdropWorker processes (worker.py)
    wpc,            \* position of each worker in run(): idle / push / crashed
    wresult,        \* the Result process_task returned, not yet pushed
    wseq,           \* history: the queue entry the worker holds
    woutcome,       \* history: what the handler did with it
    \* ---- AirdropOrchestrator (main.py)
    dpc,            \* idle / loop / scan / done
    task_ids,       \* ids enqueued by the current operation, then awaited
    pending_ids,    \* wait_for_results: pending_ids
    results,        \* wait_for_results: results
    result_data,    \* wait_for_results: the lrange snapshot
    elapsed,        \* time.time() - start_time, in seconds
    timeout,        \* wait_for_results: timeout
    uuid_next,      \* number of uuid4() values drawn so far
    \* ---- dashboard (admin-ui/app.py)
    clock,          \* int(time.time()) as the dashboard reads it
    \* ---- history of the channel
    pushed,         \* every task ever pushed, in push order
    deq_count,      \* per pushed task: how many times it was dequeued
    res_count,      \* per pushed task: how many Results were pushed for it
    seen_at_poll,   \* awaited ids that had a Result on the channel at a poll
    removed,        \* entries wait_for_results removed from result_queue
    \* ---- ProxyManager of one process (proxy_manager.py)
    proxies,        \* self.proxies
    proxy_file,     \* proxies.json: [exists, data]
    backup_file,    \* proxies.json.bak: [exists, data]
    now,            \* time.time()
    min_reuse_delay,\* self.min_reuse_delay
    ret,            \* what the last get_proxy call returned
    out,            \* what the last bulk operation of the pool returned
    \* ---- two threads of one process calling get_proxy
    lock,           \* owner of self._lock, None when free
    tpc,            \* position of each thread in get_proxy
    targs,          \* the arguments of each thread's call
    tpass,          \* the pass each thread's filter loop is in
    tpick,          \* index of the proxy each thread's filter and sort chose
    tret,           \* index of the proxy each thread's call returned
    tstamp,         \* the last_used each thread stamped on it
    overlapped,     \* history: both calls were in progress at once
    \* ---- AccountManager of one process (account_manager.py)
    accounts,       \* self.accounts
    storage_file,   \* accounts.json: [exists, data]
    acc_ret,        \* outcome of the last registry operation
    \* ---- AirdropWorker handlers on its registry and pool (worker.py)
    hret,           \* the last handled task and the Result process_task built
    \* ---- a save in progress and a second process loading the stores
    tmp_file,       \* accounts.json.tmp: [exists, data]
    renamed_file,   \* accounts.json.bak.<timestamp>: [exists, data]
    saving,         \* position of the save in progress, the file it found,
                    \* history: the last proxies.json a save found loadable
    seen,           \* what the last load of the second process read and built
    \* ---- ProxyChecker process (proxy_checker.py)
    cpc,            \* position in run(): run / sleep / pause
    \* ---- Redis key 'import_proxies' and import_from_redis
    import_proxies, \* the text under the key, <<>> when the key is absent
    ipc,            \* position in import_from_redis: idle / read / added
    proxy_list,     \* import_from_redis: proxy_list
    imp_added,      \* import_from_redis: added
    key_fresh,      \* history: the key was set since the last get
    \* ---- AccountManager of the other processes, AirdropOrchestrator
    managers,       \* self.accounts of the Dispatcher and of a second worker
    dret            \* the Result the Dispatcher processed, the list returned

qvars == <<task_queue, result_queue, wpc, wresult, wseq, woutcome, dpc,
           task_ids, pending_ids, results, result_data, elapsed, timeout,
           uuid_next, clock, pushed, deq_count, res_count, seen_at_poll,
           removed>>
pvars == <<proxies, proxy_file, backup_file, now, min_reuse_delay, ret>>
tvars == <<lock, tpc, targs, tpass, tpick, tret, tstamp, overlapped>>
avars == <<accounts, storage_file, acc_ret, hret>>
svars == <<tmp_file, renamed_file, saving, seen, cpc>>
rvars == <<import_proxies, ipc, proxy_list, imp_added, key_fresh, managers,
           dret>>
xvars == <<out, tvars, avars, svars, rvars>>
vars == <<qvars, pvars, xvars>>

(***************************************************************************)
(* Bounds of the model.                                                    *)
(***************************************************************************)
MaxTasks == 2       \* tasks pushed onto task_queue, all pushers together
MaxClock == 1       \* seconds the dashboard clock advances
MaxTimeout == 1     \* largest timeout given to wait_for_results
MaxNow == 2         \* last instant of the pool's clock
MaxDelay == 1       \* largest min_reuse_delay a pool is built with
MaxFailCount == 1   \* failures recorded per proxy
MaxFailsArg == 2    \* largest max_fails given to get_proxy
MaxAccounts == 2    \* accounts a registry holds
MaxBulk == 2        \* largest count given to bulk_create_accounts
MaxNoteLen == 4     \* length of account.notes up to which a note is appended
MaxPasswordLen == 5 \* largest length given to generate_password

Workers == {"worker-1", "worker-2"}
TaskTypes == {"create_account", "register_platform", "airdrop_participation"}
None == "None"

\* A path with no file, a file with its contents
NoFile == [exists |-> FALSE, data |-> <<>>]
File(data) == [exists |-> TRUE, data |-> data]

\* No get_proxy call has returned yet
NoCall == [index |-> 0, pass |-> "nocall", passes |-> 0, candidates |-> 0,
           country |-> None, max_fails |-> 0, protocol |-> None,
           working_only |-> FALSE]

Range(s) == {s[i] : i \in 1..Len(s)}

\* No bulk operation of the pool has returned yet
NoOut == [op |-> "none", count |-> 0, total |-> 0, working |-> 0,
          text |-> <<>>, protocol |-> None, max_fails |-> 0, judged |-> <<>>]

Threads == {"t1", "t2"}

\* The arguments of a get_proxy call; NoArgs before the call
Args(country, max_fails, protocol, working_only) ==
    [country |-> country, max_fails |-> max_fails, protocol |-> protocol,
     working_only |-> working_only]
NoArgs == Args(None, 0, None, FALSE)

\* An e-mail address as validate_email's pattern reads it: local@domain.tld;
\* NoAddr is None or the empty string, both false in a condition.
Addr(local, domain, tld) == [local |-> local, domain |-> domain, tld |-> tld]
NoAddr == Addr("", "", "")

\* Proxy.address, protocol://ip:port; NoAddress is the None of account.proxy
Address(protocol, ip, port) == [protocol |-> protocol, ip |-> ip, port |-> port]
NoAddress == Address("", "", 0)

\* No task has been handled yet
NoHRet == [op |-> "none", email |-> NoAddr, platform |-> "",
           raised |-> FALSE, success |-> FALSE,
           message |-> "", platform_username |-> ""]

\* No registry operation has returned yet
NoAccRet == [op |-> "none", email |-> NoAddr, recovery_email |-> NoAddr,
             result |-> "none", count |-> 0]

(***************************************************************************)
(* Worker: handlers and process_task.                                      *)
(***************************************************************************)

\* What a handler does with a task: return a success dict, return a failure
\* dict, or raise (create_account's ValueError, a store error, ...).
Outcomes == {"success", "failure", "raise"}

ErrorMessage == "Error: exception"

\* A worker that holds no Result
NoResult == [success |-> FALSE, message |-> "none"]

\* The dict a handler returns (the automation outcome is random.random()).
create_account_handler(o) ==
    IF o = "success"
    THEN [success |-> TRUE, message |-> "Account created successfully",
          account_email |-> "email", account_password |-> "password"]
    ELSE [success |-> FALSE, message |-> "Failed to create account",
          account_email |-> "email", account_password |-> "password"]

register_platform_handler(o) ==
    IF o = "success"
    THEN [success |-> TRUE, message |-> "Successfully registered",
          platform |-> "platform", platform_username |-> "username"]
    ELSE [success |-> FALSE, message |-> "Failed to register",
          platform |-> "platform", platform_username |-> None]

participate_airdrop_handler(o) ==
    IF o = "success"
    THEN [success |-> TRUE, message |-> "Successfully participated",
          airdrop_name |-> "airdrop", platform |-> "platform",
          actions_completed |-> "actions"]
    ELSE [success |-> FALSE, message |-> "Failed to participate",
          airdrop_name |-> "airdrop", platform |-> "platform",
          actions_completed |-> "none"]

\* dict.update
Update(d, h) ==
    [k \in (DOMAIN d) \cup (DOMAIN h) |-> IF k \in DOMAIN h THEN h[k] ELSE d[k]]

ProcessTaskNoMessage(task_data, worker_id, o) ==
    LET result == [worker_id |-> worker_id, task_id |-> task_data.task_id,
                   type |-> task_data.type, success |-> FALSE, message |-> ""]
    IN  IF o = "raise" THEN result
        ELSE IF task_data.type = "create_account"
             THEN Update(result, create_account_handler(o))
        ELSE IF task_data.type = "register_platform"
             THEN Update(result, register_platform_handler(o))
        ELSE Update(result, participate_airdrop_handler(o))

ProcessTaskOwnId(task_data, worker_id, o) ==
    LET result == [worker_id |-> worker_id,
                   task_id |-> [src |-> "worker", a |-> 0, b |-> 0],
                   type |-> task_data.type, success |-> FALSE, message |-> ""]
    IN  IF o = "raise"
        THEN [result EXCEPT !.success = FALSE, !.message = ErrorMessage]
        ELSE IF task_data.type = "create_account"
             THEN Update(result, create_account_handler(o))
        ELSE IF task_data.type = "register_platform"
             THEN Update(result, register_platform_handler(o))
        ELSE Update(result, participate_airdrop_handler(o))

\* AirdropWorker.process_task: the envelope, updated with the handler's dict;
\* a handler exception leaves the envelope with success False and the error.
ProcessTask(task_data, worker_id, o) ==
    LET result == [worker_id |-> worker_id, task_id |-> task_data.task_id,
                   type |-> task_data.type, success |-> FALSE, message |-> ""]
    IN  IF o = "raise"
        THEN [result EXCEPT !.success = FALSE, !.message = ErrorMessage]
        ELSE IF task_data.type = "create_account"
             THEN Update(result, create_account_handler(o))
        ELSE IF task_data.type = "register_platform"
             THEN Update(result, register_platform_handler(o))
        ELSE IF task_data.type = "airdrop_participation"
             THEN Update(result, participate_airdrop_handler(o))
        ELSE [result EXCEPT !.message = "Unknown task type"]

(***************************************************************************)
(* Redis list commands.                                                    *)
(***************************************************************************)

\* RPUSH key value
Rpush(list, value) == Append(list, value)

LpopKeepsHead(list) == list

LremNothing(list, value) == list

\* the list BLPOP leaves behind
Lpop(list) == Tail(list)

\* LREM key 0 value: every element equal to value is removed
RECURSIVE Lrem(_, _)
Lrem(list, value) ==
    IF list = <<>> THEN <<>>
    ELSE IF Head(list) = value THEN Lrem(Tail(list), value)
    ELSE <<Head(list)>> \o Lrem(Tail(list), value)

\* A queue entry is the task's JSON; seq only tells two entries apart.
Json(task) == [task_id |-> task.task_id, type |-> task.type]

(***************************************************************************)
(* Worker actions: AirdropWorker.run.                                      *)
(***************************************************************************)

\* blpop returns a task, json.loads, process_task.
Blpop(w) ==
    /\ wpc[w] = "idle"
    /\ task_queue # <<>>
    /\ LET task == Head(task_queue)
       IN  \E o \in Outcomes :
             /\ task_queue' = Lpop(task_queue)
             /\ wresult' = [wresult EXCEPT ![w] = ProcessTask(Json(task), w, o)]
             /\ wseq' = [wseq EXCEPT ![w] = task.seq]
             /\ woutcome' = [woutcome EXCEPT ![w] = o]
             /\ wpc' = [wpc EXCEPT ![w] = "push"]
             /\ deq_count' = [deq_count EXCEPT ![task.seq] = @ + 1]
    /\ UNCHANGED <<pvars, xvars>>
    /\ UNCHANGED <<result_queue, dpc, task_ids, pending_ids, results,
                   result_data, elapsed, timeout, uuid_next, clock, pushed,
                   res_count, seen_at_poll, removed>>

\* rpush of the result, then the inter-task sleep.
PushResult(w) ==
    /\ wpc[w] = "push"
    /\ result_queue' = Rpush(result_queue, wresult[w])
    /\ res_count' = [res_count EXCEPT ![wseq[w]] = @ + 1]
    /\ wpc' = [wpc EXCEPT ![w] = "idle"]
    /\ wresult' = [wresult EXCEPT ![w] = NoResult]
    /\ wseq' = [wseq EXCEPT ![w] = 0]
    /\ woutcome' = [woutcome EXCEPT ![w] = None]
    /\ UNCHANGED <<pvars, xvars>>
    /\ UNCHANGED <<task_queue, dpc, task_ids, pending_ids, results,
                   result_data, elapsed, timeout, uuid_next, clock, pushed,
                   deq_count, seen_at_poll, removed>>

\* The worker process stops (killed, host down) with a task in hand; what
\* it held in memory is gone.
Crash(w) ==
    /\ wpc[w] = "push"
    /\ wpc' = [wpc EXCEPT ![w] = "crashed"]
    /\ wresult' = [wresult EXCEPT ![w] = NoResult]
    /\ woutcome' = [woutcome EXCEPT ![w] = None]
    /\ UNCHANGED <<pvars, xvars>>
    /\ UNCHANGED <<task_queue, result_queue, wseq, dpc, task_ids,
                   pending_ids, results, result_data, elapsed, timeout,
                   uuid_next, clock, pushed, deq_count, res_count,
                   seen_at_poll, removed>>

(***************************************************************************)
(* Dispatcher: AirdropOrchestrator.enqueue_task and wait_for_results.      *)
(***************************************************************************)

\* str(uuid.uuid4()): the n-th value drawn
Uuid(n) == [src |-> "uuid", a |-> n, b |-> 0]

\* The channel and its history after a push of tasks (a sequence of
\* [task_id, type]) onto task_queue.
PushTasks(tasks) ==
    /\ task_queue' = task_queue \o
          [i \in 1..Len(tasks) |->
              [task_id |-> tasks[i].task_id, type |-> tasks[i].type,
               seq |-> Len(pushed) + i]]
    /\ pushed' = pushed \o tasks
    /\ deq_count' = deq_count \o [i \in 1..Len(tasks) |-> 0]
    /\ res_count' = res_count \o [i \in 1..Len(tasks) |-> 0]

\* enqueue_task, called by create_accounts / register_accounts /
\* participate_in_airdrop before they wait.
EnqueueTask(task_type) ==
    /\ dpc = "idle"
    /\ Len(pushed) < MaxTasks
    /\ LET task_id == Uuid(uuid_next + 1)
       IN  /\ PushTasks(<<[task_id |-> task_id, type |-> task_type]>>)
           /\ task_ids' = Append(task_ids, task_id)
    /\ uuid_next' = uuid_next + 1
    /\ UNCHANGED <<pvars, xvars>>
    /\ UNCHANGED <<result_queue, wpc, wresult, wseq, woutcome, dpc,
                   pending_ids, results, result_data, elapsed, timeout, clock,
                   seen_at_poll, removed>>

\* wait_for_results, up to the first test of the loop condition.
StartWait(t) ==
    /\ dpc = "idle"
    /\ dpc' = "loop"
    /\ results' = <<>>
    /\ elapsed' = 0
    /\ timeout' = t
    /\ pending_ids' = Range(task_ids)
    /\ UNCHANGED <<pvars, xvars>>
    /\ UNCHANGED <<task_queue, result_queue, wpc, wresult, wseq, woutcome,
                   task_ids, result_data, uuid_next, clock, pushed, deq_count,
                   res_count, seen_at_poll, removed>>

LoopConditionNoTimeout(pending, el, t) == pending # {}

\* while pending_ids and time.time() - start_time < timeout
LoopCondition(pending, el, t) == pending # {} /\ el < t

\* lrange('result_queue', 0, -1)
Lrange ==
    /\ dpc = "loop"
    /\ LoopCondition(pending_ids, elapsed, timeout)
    /\ result_data' = result_queue
    /\ seen_at_poll' = seen_at_poll \cup
          {id \in Range(task_ids) : \E r \in Range(result_queue) : r.task_id = id}
    /\ dpc' = "scan"
    /\ UNCHANGED <<pvars, xvars>>
    /\ UNCHANGED <<task_queue, result_queue, wpc, wresult, wseq, woutcome,
                   task_ids, pending_ids, results, elapsed, timeout, uuid_next,
                   clock, pushed, deq_count, res_count, removed>>

MatchesAny(result, pending) == TRUE

\* if result.get('task_id') in pending_ids
Matches(result, pending) == result.task_id \in pending

\* The for loop over the snapshot: s is [pending, results, queue, removed].
RECURSIVE ScanLoop(_, _)
ScanLoop(data, s) ==
    IF data = <<>> THEN s
    ELSE LET result == Head(data)
         IN  IF Matches(result, s.pending)
             THEN ScanLoop(Tail(data),
                    [pending |-> s.pending \ {result.task_id},
                     results |-> Append(s.results, result),
                     queue   |-> Lrem(s.queue, result),
                     removed |-> s.removed \o
                                 SelectSeq(s.queue, LAMBDA e : e \notin
                                     Range(Lrem(s.queue, result)))])
             ELSE ScanLoop(Tail(data), s)

\* The body of one iteration after lrange: claim and lrem the matches, then
\* sleep(1) if ids are still pending.
Scan ==
    /\ dpc = "scan"
    /\ LET s == ScanLoop(result_data,
                   [pending |-> pending_ids, results |-> results,
                    queue |-> result_queue, removed |-> removed])
       IN  /\ pending_ids' = s.pending
           /\ results' = s.results
           /\ result_queue' = s.queue
           /\ removed' = s.removed
           /\ elapsed' = IF s.pending # {} THEN elapsed + 1
                         ELSE elapsed
    /\ result_data' = <<>>
    /\ dpc' = "loop"
    /\ UNCHANGED <<pvars, xvars>>
    /\ UNCHANGED <<task_queue, wpc, wresult, wseq, woutcome, task_ids,
                   timeout, uuid_next, clock, pushed, deq_count, res_count,
                   seen_at_poll>>

\* The loop condition fails: the timeout warning, return results.
Return ==
    /\ dpc = "loop"
    /\ ~LoopCondition(pending_ids, elapsed, timeout)
    /\ dpc' = "done"
    /\ UNCHANGED <<pvars, xvars>>
    /\ UNCHANGED <<task_queue, result_queue, wpc, wresult, wseq, woutcome,
                   task_ids, pending_ids, results, result_data, elapsed,
                   timeout, uuid_next, clock, pushed, deq_count, res_count,
                   seen_at_poll, removed>>

\* The caller has used the returned list; the next operation starts.
Finish ==
    /\ dpc = "done"
    /\ dpc' = "idle"
    /\ task_ids' = <<>>
    /\ pending_ids' = {}
    /\ results' = <<>>
    /\ elapsed' = 0
    /\ timeout' = 0
    /\ seen_at_poll' = {}
    /\ removed' = <<>>
    /\ UNCHANGED <<pvars, xvars>>
    /\ UNCHANGED <<task_queue, result_queue, wpc, wresult, wseq, woutcome,
                   result_data, uuid_next, clock, pushed, deq_count, res_count>>

(***************************************************************************)
(* Dashboard: admin-ui/app.py.                                             *)
(***************************************************************************)

\* f"ui-{int(time.time())}-{i}"
UiTaskId(t, i) == [src |-> "ui", a |-> t, b |-> i]

\* POST /api/create_accounts with count
ApiCreateAccounts(count) ==
    /\ Len(pushed) + count <= MaxTasks
    /\ PushTasks([k \in 1..count |->
          [task_id |-> UiTaskId(clock, k - 1), type |-> "create_account"]])
    /\ UNCHANGED <<pvars, xvars>>
    /\ UNCHANGED <<result_queue, wpc, wresult, wseq, woutcome, dpc, task_ids,
                   pending_ids, results, result_data, elapsed, timeout,
                   uuid_next, clock, seen_at_poll, removed>>

\* POST /api/clear_results: delete('result_queue')
ApiClearResults ==
    /\ result_queue # <<>>
    /\ result_queue' = <<>>
    /\ UNCHANGED <<pvars, xvars>>
    /\ UNCHANGED <<task_queue, wpc, wresult, wseq, woutcome, dpc, task_ids,
                   pending_ids, results, result_data, elapsed, timeout,
                   uuid_next, clock, pushed, deq_count, res_count,
                   seen_at_poll, removed>>

\* A second passes on the dashboard's clock.
ClockTick ==
    /\ clock < MaxClock
    /\ clock' = clock + 1
    /\ UNCHANGED <<pvars, xvars>>
    /\ UNCHANGED <<task_queue, result_queue, wpc, wresult, wseq, woutcome, dpc,
                   task_ids, pending_ids, results, result_data, elapsed,
                   timeout, uuid_next, pushed, deq_count, res_count,
                   seen_at_poll, removed>>

(***************************************************************************)
(* The queue protocol.                                                     *)
(***************************************************************************)

QueueInit ==
    /\ task_queue = <<>>
    /\ result_queue = <<>>
    /\ wpc = [w \in Workers |-> "idle"]
    /\ wresult = [w \in Workers |-> NoResult]
    /\ wseq = [w \in Workers |-> 0]
    /\ woutcome = [w \in Workers |-> None]
    /\ dpc = "idle"
    /\ task_ids = <<>>
    /\ pending_ids = {}
    /\ results = <<>>
    /\ result_data = <<>>
    /\ elapsed = 0
    /\ timeout = 0
    /\ uuid_next = 0
    /\ clock = 0
    /\ pushed = <<>>
    /\ deq_count = <<>>
    /\ res_count = <<>>
    /\ seen_at_poll = {}
    /\ removed = <<>>

PoolIdle ==
    /\ proxies = <<>>
    /\ proxy_file = NoFile
    /\ backup_file = NoFile
    /\ now = 1
    /\ min_reuse_delay = 0
    /\ ret = NoCall

\* No thread is in get_proxy.
ThreadsIdle ==
    /\ lock = None
    /\ tpc = [t \in Threads |-> "idle"]
    /\ targs = [t \in Threads |-> NoArgs]
    /\ tpass = [t \in Threads |-> 0]
    /\ tpick = [t \in Threads |-> 0]
    /\ tret = [t \in Threads |-> 0]
    /\ tstamp = [t \in Threads |-> 0]
    /\ overlapped = FALSE

\* AccountManager() with no storage file.
RegistryIdle ==
    /\ accounts = <<>>
    /\ storage_file = NoFile
    /\ acc_ret = NoAccRet

\* No save is in progress and no second process has loaded a store.
StoreIdle ==
    /\ tmp_file = NoFile
    /\ renamed_file = NoFile
    /\ saving = [at |-> "idle", old |-> NoFile, prior |-> NoFile]
    /\ seen = [store |-> "none", list |-> <<>>, file |-> NoFile]

\* The processes beside the first worker that hold an AccountManager
Others == {"dispatcher", "worker-2"}

NoDRet == [op |-> "none", result |-> [type |-> "none"], returned |-> <<>>]

\* The key 'import_proxies' is absent, no import is in progress, the other
\* processes were constructed with no accounts.json to load.
SharedIdle ==
    /\ import_proxies = <<>>
    /\ ipc = "idle"
    /\ proxy_list = <<>>
    /\ imp_added = 0
    /\ key_fresh = FALSE
    /\ managers = [p \in Others |-> <<>>]
    /\ dret = NoDRet

OthersIdle ==
    /\ out = NoOut
    /\ ThreadsIdle
    /\ SharedIdle
    /\ RegistryIdle
    /\ hret = NoHRet
    /\ StoreIdle
    /\ cpc = "run"

Init == QueueInit /\ PoolIdle /\ OthersIdle

WorkerStep == \E w \in Workers : Blpop(w) \/ PushResult(w) \/ Crash(w)

DispatcherStep ==
    \/ \E tt \in TaskTypes : EnqueueTask(tt)
    \/ \E t \in 0..MaxTimeout : StartWait(t)
    \/ Lrange
    \/ Scan
    \/ Return
    \/ Finish

DashboardStep ==
    \/ \E count \in 1..MaxTasks : ApiCreateAccounts(count)
    \/ ApiClearResults
    \/ ClockTick

Next == WorkerStep \/ DispatcherStep \/ DashboardStep

Spec == Init /\ [][Next]_vars

\* The Dispatcher process is scheduled: its poll loop keeps taking steps.
WaitStep == Lrange \/ Scan \/ Return

FairSpec == Spec /\ WF_vars(WaitStep)

(***************************************************************************)
(* Proxy pool: proxy_manager.py.                                           *)
(***************************************************************************)

\* The arguments get_proxy is called with
CountryArgs == {None, "US"}
ProtocolArgs == {None, "socks5"}
MaxFailsArgs == 1..MaxFailsArg

\* The proxies that are added: (ip, port, protocol, country).
ProxySpecs == {<<"10.0.0.1", 8080, "http", None>>,
               <<"10.0.0.2", 1080, "socks5", "US">>}

\* None in an Optional[float] field
NoTime == -1

\* Python truth value of an Optional[float]
Truthy(x) == x # NoTime /\ x # 0


\* Proxy(ip, port, protocol=..., country=...) with the dataclass defaults
NewProxy(ip, port, protocol, country) ==
    [ip |-> ip, port |-> port, protocol |-> protocol, country |-> country,
     last_used |-> NoTime, fail_count |-> 0, last_checked |-> NoTime,
     is_working |-> FALSE, response_time |-> NoTime]

\* ProxyManager.save_proxies: the backup copy of the existing file, then
\* the dump of self.proxies.  Yields <<proxies.json, proxies.json.bak>>.
SaveProxies(list, file, bak) ==
    <<File(list), IF file.exists THEN File(file.data) ELSE bak>>

FindNothing(list, ip, port) == 0

\* Index of the proxy with this (ip, port), 0 if there is none.
Find(list, ip, port) ==
    IF \E i \in 1..Len(list) : list[i].ip = ip /\ list[i].port = port
    THEN CHOOSE i \in 1..Len(list) :
            /\ list[i].ip = ip /\ list[i].port = port
            /\ \A j \in 1..(i - 1) : ~(list[j].ip = ip /\ list[j].port = port)
    ELSE 0

\* ProxyManager.add_proxy: upsert by (ip, port), save.
AddProxy(ip, port, protocol, country) ==
    /\ LET i == Find(proxies, ip, port)
           list == IF i # 0
                   THEN [proxies EXCEPT
                           ![i].protocol = IF protocol # None THEN protocol ELSE @,
                           ![i].country = IF country # None THEN country ELSE @]
                   ELSE Append(proxies, NewProxy(ip, port, protocol, country))
           saved == SaveProxies(list, proxy_file, backup_file)
       IN  /\ proxies' = list
           /\ proxy_file' = saved[1]
           /\ backup_file' = saved[2]
    /\ ret' = NoCall
    /\ UNCHANGED <<now, min_reuse_delay>>
    /\ UNCHANGED <<qvars, xvars>>

InCooldownStrict(p, t, delay) ==
    Truthy(p.last_used) /\ (t - p.last_used) < delay

\* p.last_used and (now - p.last_used) <= self.min_reuse_delay
InCooldown(p, t, delay) ==
    Truthy(p.last_used) /\ (t - p.last_used) <= delay

FailedCheckIgnored(p, working_only) == FALSE

FailedCheckAlways(p, working_only) == Truthy(p.last_checked) /\ ~p.is_working

\* working_only and p.last_checked and not p.is_working
FailedCheck(p, working_only) ==
    working_only /\ Truthy(p.last_checked) /\ ~p.is_working

\* The filter of get_proxy's loop: p is appended to available_proxies.
Available(p, country, max_fails, protocol, working_only, t, delay) ==
    /\ ~(p.fail_count >= max_fails)
    /\ ~FailedCheck(p, working_only)
    /\ ~(country # None /\ p.country # country)
    /\ ~(protocol # None /\ p.protocol # protocol)
    /\ ~InCooldown(p, t, delay)

\* key=lambda x: (x.fail_count, x.last_used or 0), compared as tuples
SortKeyLess(p, q) ==
    LET pu == IF Truthy(p.last_used) THEN p.last_used ELSE 0
        qu == IF Truthy(q.last_used) THEN q.last_used ELSE 0
    IN  \/ p.fail_count < q.fail_count
        \/ p.fail_count = q.fail_count /\ pu < qu

BestUnsorted(list, avail) ==
    CHOOSE i \in avail : \A j \in avail : i <= j

\* available_proxies.sort(...)[0]: the stable sort keeps list order among
\* equal keys.  avail is the set of indices of available_proxies.
Best(list, avail) ==
    CHOOSE i \in avail :
        \A j \in avail \ {i} :
            \/ SortKeyLess(list[i], list[j])
            \/ ~SortKeyLess(list[j], list[i]) /\ i < j

\* One pass of get_proxy over self.proxies.
AvailableSet(list, country, max_fails, protocol, working_only, t, delay) ==
    {i \in 1..Len(list) :
        Available(list[i], country, max_fails, protocol, working_only, t, delay)}

\* ProxyManager.get_proxy: the pass with the caller's working_only, the
\* single retry with working_only False, mark_used, save.
GetProxy(country, max_fails, protocol, working_only) ==
    LET first == AvailableSet(proxies, country, max_fails, protocol,
                              working_only, now, min_reuse_delay)
        second == AvailableSet(proxies, country, max_fails, protocol,
                               FALSE, now, min_reuse_delay)
        fallback == first = {} /\ working_only
        avail == IF fallback THEN second ELSE first
    IN  /\ IF avail = {}
           THEN /\ ret' = [index |-> 0, pass |-> "none",
                           passes |-> IF fallback THEN 2 ELSE 1,
                           candidates |-> 0,
                           country |-> country, max_fails |-> max_fails,
                           protocol |-> protocol,
                           working_only |-> working_only]
                /\ UNCHANGED <<proxies, proxy_file, backup_file>>
           ELSE LET i == Best(proxies, avail)
                    list == [proxies EXCEPT ![i].last_used = now]
                    saved == SaveProxies(list, proxy_file, backup_file)
                IN  /\ proxies' = list
                    /\ proxy_file' = saved[1]
                    /\ backup_file' = saved[2]
                    /\ ret' = [index |-> i,
                               pass |-> IF fallback THEN "fallback" ELSE "primary",
                               passes |-> IF fallback THEN 2 ELSE 1,
                               candidates |-> Cardinality(avail),
                               country |-> country, max_fails |-> max_fails,
                               protocol |-> protocol,
                               working_only |-> working_only]
        /\ UNCHANGED <<now, min_reuse_delay>>
        /\ UNCHANGED <<qvars, xvars>>

ReportProxyResultUnclamped(ip, port, success) ==
    /\ LET i == Find(proxies, ip, port)
       IN  /\ i # 0
           /\ ~success => proxies[i].fail_count < MaxFailCount
           /\ LET list == [proxies EXCEPT ![i].fail_count =
                              IF success THEN @ - 1 ELSE @ + 1]
                  saved == SaveProxies(list, proxy_file, backup_file)
              IN  /\ proxies' = list
                  /\ proxy_file' = saved[1]
                  /\ backup_file' = saved[2]
    /\ ret' = NoCall
    /\ UNCHANGED <<now, min_reuse_delay>>
    /\ UNCHANGED <<qvars, xvars>>

\* ProxyManager.report_proxy_result: mark_success / mark_failed on the pool's
\* proxy with that (ip, port), save; nothing if there is none.
ReportProxyResult(ip, port, success) ==
    /\ LET i == Find(proxies, ip, port)
       IN  /\ i # 0
           /\ ~success => proxies[i].fail_count < MaxFailCount
           /\ LET list == [proxies EXCEPT ![i].fail_count =
                              IF success THEN (IF @ - 1 > 0 THEN @ - 1 ELSE 0)
                              ELSE @ + 1]
                  saved == SaveProxies(list, proxy_file, backup_file)
              IN  /\ proxies' = list
                  /\ proxy_file' = saved[1]
                  /\ backup_file' = saved[2]
    /\ ret' = NoCall
    /\ UNCHANGED <<now, min_reuse_delay>>
    /\ UNCHANGED <<qvars, xvars>>

\* ProxyManager.test_proxy on a pool member: set_check_result with the
\* outcome of the request and the time the request took (time.time() -
\* start_time, 0 on the clock of the model), in the try branch and in the
\* except branch alike; save.
TestProxy(i, success) ==
    /\ i \in 1..Len(proxies)
    /\ ~success => proxies[i].fail_count < MaxFailCount
    /\ LET list == [proxies EXCEPT
                      ![i].is_working = success,
                      ![i].last_checked = now,
                      ![i].response_time = 0,
                      ![i].fail_count = IF success THEN 0 ELSE @ + 1]
           saved == SaveProxies(list, proxy_file, backup_file)
       IN  /\ proxies' = list
           /\ proxy_file' = saved[1]
           /\ backup_file' = saved[2]
    /\ ret' = NoCall
    /\ UNCHANGED <<now, min_reuse_delay>>
    /\ UNCHANGED <<qvars, xvars>>

\* Time passes.
Tick ==
    /\ now < MaxNow
    /\ now' = now + 1
    /\ ret' = NoCall
    /\ UNCHANGED <<proxies, proxy_file, backup_file, min_reuse_delay>>
    /\ UNCHANGED <<qvars, xvars>>

\* ProxyManager(min_reuse_delay=...) on an empty store.
PoolInit ==
    /\ QueueInit
    /\ OthersIdle
    /\ proxies = <<>>
    /\ proxy_file = NoFile
    /\ backup_file = NoFile
    /\ now = 1
    /\ min_reuse_delay \in 0..MaxDelay
    /\ ret = NoCall

PoolNext ==
    \/ \E ps \in ProxySpecs : AddProxy(ps[1], ps[2], ps[3], ps[4])
    \/ \E country \in CountryArgs, max_fails \in MaxFailsArgs,
          protocol \in ProtocolArgs, working_only \in BOOLEAN :
          GetProxy(country, max_fails, protocol, working_only)
    \/ \E ps \in ProxySpecs, success \in BOOLEAN :
          ReportProxyResult(ps[1], ps[2], success)
    \/ \E i \in 1..Len(proxies), success \in BOOLEAN : TestProxy(i, success)
    \/ Tick

SpecPool == PoolInit /\ [][PoolNext]_vars

(***************************************************************************)
(* get_proxy called by two threads of one process (self._lock).            *)
(***************************************************************************)

LockIgnored(owner, t) == TRUE

\* threading.RLock: free, or already held by the calling thread
LockFree(owner, t) == owner = None \/ owner = t

\* The health states a pool member can be in before the calls
CheckStates == {<<NoTime, FALSE>>, <<1, TRUE>>, <<1, FALSE>>}

\* Pools of one or two proxies, never used, as add_proxy, test_proxy and
\* report_proxy_result leave them.
StartPools ==
    LET P(ps, c, f) == [NewProxy(ps[1], ps[2], ps[3], ps[4]) EXCEPT
                          !.last_checked = c[1], !.is_working = c[2],
                          !.fail_count = f]
        One(ps) == {P(ps, c, f) : c \in CheckStates, f \in 0..MaxFailCount}
        first == One(<<"10.0.0.1", 8080, "http", None>>)
        second == One(<<"10.0.0.2", 1080, "socks5", "US">>)
    IN  {<<a>> : a \in first} \cup {<<a, b>> : a \in first, b \in second}

\* A thread calls get_proxy and reaches `with self._lock`.
ThreadCall(t, max_fails, working_only) ==
    /\ tpc[t] = "idle"
    /\ tpc' = [tpc EXCEPT ![t] = "waiting"]
    /\ targs' = [targs EXCEPT ![t] = Args(None, max_fails, None, working_only)]
    /\ overlapped' = (overlapped \/ \E u \in Threads \ {t} :
                                       tpc[u] \in {"waiting", "filter", "mark"})
    /\ UNCHANGED <<lock, tpass, tpick, tret, tstamp>>
    /\ UNCHANGED <<qvars, pvars, out, avars, svars, rvars>>

\* with self._lock: the thread enters the region.
ThreadAcquire(t) ==
    /\ tpc[t] = "waiting"
    /\ LockFree(lock, t)
    /\ lock' = t
    /\ tpc' = [tpc EXCEPT ![t] = "filter"]
    /\ tpass' = [tpass EXCEPT ![t] = 1]
    /\ UNCHANGED <<targs, tpick, tret, tstamp, overlapped>>
    /\ UNCHANGED <<qvars, pvars, out, avars, svars, rvars>>

\* now = time.time(), the filter loop and the sort of one pass; with no
\* candidate the retry with working_only False, or the return of None.
ThreadFilter(t) ==
    /\ tpc[t] = "filter"
    /\ LET a == targs[t]
           wo == a.working_only /\ tpass[t] = 1
           avail == AvailableSet(proxies, a.country, a.max_fails, a.protocol,
                                 wo, now, min_reuse_delay)
       IN  IF avail # {}
           THEN /\ tpick' = [tpick EXCEPT ![t] = Best(proxies, avail)]
                /\ tpc' = [tpc EXCEPT ![t] = "mark"]
                /\ UNCHANGED <<lock, tpass>>
           ELSE IF wo
           THEN /\ tpass' = [tpass EXCEPT ![t] = 2]
                /\ UNCHANGED <<lock, tpc, tpick>>
           ELSE /\ tpc' = [tpc EXCEPT ![t] = "done"]
                /\ lock' = IF lock = t THEN None ELSE lock
                /\ UNCHANGED <<tpass, tpick>>
    /\ UNCHANGED <<targs, tret, tstamp, overlapped>>
    /\ UNCHANGED <<qvars, pvars, out, avars, svars, rvars>>

\* proxy.mark_used(), self.save_proxies(), return proxy: the region is left.
ThreadMark(t) ==
    /\ tpc[t] = "mark"
    /\ LET i == tpick[t]
           list == [proxies EXCEPT ![i].last_used = now]
           saved == SaveProxies(list, proxy_file, backup_file)
       IN  /\ proxies' = list
           /\ proxy_file' = saved[1]
           /\ backup_file' = saved[2]
           /\ tret' = [tret EXCEPT ![t] = i]
           /\ tstamp' = [tstamp EXCEPT ![t] = now]
    /\ tpc' = [tpc EXCEPT ![t] = "done"]
    /\ lock' = IF lock = t THEN None ELSE lock
    /\ UNCHANGED <<targs, tpass, tpick, overlapped>>
    /\ UNCHANGED <<now, min_reuse_delay, ret>>
    /\ UNCHANGED <<qvars, out, avars, svars, rvars>>

\* Time passes while the threads run.
ThreadTick ==
    /\ now < MaxNow
    /\ now' = now + 1
    /\ UNCHANGED <<proxies, proxy_file, backup_file, min_reuse_delay, ret>>
    /\ UNCHANGED <<qvars, xvars>>

\* One ProxyManager with a loaded pool, two threads about to call get_proxy.
SelectInit ==
    /\ QueueInit
    /\ OthersIdle
    /\ proxies \in StartPools
    /\ proxy_file = File(proxies)
    /\ backup_file = NoFile
    /\ now = 1
    /\ min_reuse_delay \in 0..MaxDelay
    /\ ret = NoCall

SelectNext ==
    \/ \E t \in Threads, max_fails \in MaxFailsArgs, working_only \in BOOLEAN :
          ThreadCall(t, max_fails, working_only)
    \/ \E t \in Threads : ThreadAcquire(t)
    \/ \E t \in Threads : ThreadFilter(t)
    \/ \E t \in Threads : ThreadMark(t)
    \/ ThreadTick

SpecSelect == SelectInit /\ [][SelectNext]_vars

(***************************************************************************)
(* Pool maintenance: bulk import, health probes, bulk check, eviction      *)
(* (proxy_manager.py, proxy_checker.py).                                   *)
(***************************************************************************)

\* A line of import text, as the patterns of parse_proxy_string see it:
\* blank, '#' comment, not matching, or [protocol://]ip:port with the
\* protocol group None when the prefix is absent.
Line(kind, protocol, ip, port) ==
    [kind |-> kind, protocol |-> protocol, ip |-> ip, port |-> port]
BadLine == Line("bad", None, "", 0)
Lines ==
    {Line("blank", None, "", 0), Line("comment", None, "", 0), BadLine,
     Line("proxy", None, "10.0.0.1", 8080),
     Line("proxy", "socks5", "10.0.0.2", 1080)}

MaxLines == 3       \* lines of an import text

\* Import texts: up to MaxLines lines, no line twice
Texts ==
    {text \in UNION {[1..n -> Lines] : n \in 1..MaxLines} :
        \A i, j \in 1..Len(text) : i # j => text[i] # text[j]}
DefaultProtocols == {"http", "https"}

ParseAnything(line) ==
    [ok |-> TRUE, ip |-> line.ip, port |-> line.port, protocol |-> "http"]

\* ProxyManager.parse_proxy_string: the ValueError, or ip, port and
\* match.group('protocol') or 'http'.
ParseProxyString(line) ==
    IF line.kind = "proxy"
    THEN [ok |-> TRUE, ip |-> line.ip, port |-> line.port,
          protocol |-> IF line.protocol # None THEN line.protocol ELSE "http"]
    ELSE [ok |-> FALSE, ip |-> "", port |-> 0, protocol |-> None]

\* actual_protocol = detected_protocol or protocol
ActualProtocol(detected, protocol) ==
    IF detected # None /\ detected # "" THEN detected ELSE protocol

\* The list add_proxy leaves: the match by (ip, port) updated with the
\* provided fields, else the new proxy appended.
Upsert(list, ip, port, protocol, country) ==
    LET i == Find(list, ip, port)
    IN  IF i # 0
        THEN [list EXCEPT
                ![i].protocol = IF protocol # None THEN protocol ELSE @,
                ![i].country = IF country # None THEN country ELSE @]
        ELSE Append(list, NewProxy(ip, port, protocol, country))

\* if not line or line.startswith('#'): continue
Skipped(line) == line.kind \in {"blank", "comment"}

\* The for loop of bulk_add_from_text over the lines from index k on;
\* st = [list, file, bak, added].
RECURSIVE BulkLoop(_, _, _, _)
BulkLoop(text, protocol, k, st) ==
    IF k > Len(text) THEN st
    ELSE LET line == text[k]
             parsed == ParseProxyString(line)
         IN  IF Skipped(line) \/ ~parsed.ok
             THEN BulkLoop(text, protocol, k + 1, st)
             ELSE LET list == Upsert(st.list, parsed.ip, parsed.port,
                                     ActualProtocol(parsed.protocol, protocol),
                                     None)
                      saved == SaveProxies(list, st.file, st.bak)
                  IN  BulkLoop(text, protocol, k + 1,
                               [list |-> list, file |-> saved[1],
                                bak |-> saved[2], added |-> st.added + 1])

\* ProxyManager.bulk_add_from_text(text, protocol): the loop, the final
\* save_proxies, the count returned.
BulkAddFromText(text, protocol) ==
    /\ LET st == BulkLoop(text, protocol, 1,
                          [list |-> proxies, file |-> proxy_file,
                           bak |-> backup_file, added |-> 0])
           saved == SaveProxies(st.list, st.file, st.bak)
       IN  /\ proxies' = st.list
           /\ proxy_file' = saved[1]
           /\ backup_file' = saved[2]
           /\ out' = [NoOut EXCEPT !.op = "bulk_add", !.count = st.added,
                                   !.text = text, !.protocol = protocol]
    /\ ret' = NoCall
    /\ UNCHANGED <<now, min_reuse_delay>>
    /\ UNCHANGED <<qvars, tvars, rvars, avars, svars>>

SurvivesAtThreshold(p, max_fails) == p.fail_count <= max_fails

\* p.fail_count < max_fails
Survives(p, max_fails) == p.fail_count < max_fails

\* ProxyManager.remove_failed_proxies on a list: <<list, removed>>
RemoveFailed(list, max_fails) ==
    LET kept == SelectSeq(list, LAMBDA p : Survives(p, max_fails))
    IN  <<kept, Len(list) - Len(kept)>>

\* ProxyManager.remove_failed_proxies(max_fails): saves if any was removed.
RemoveFailedProxies(max_fails) ==
    /\ LET r == RemoveFailed(proxies, max_fails)
           saved == IF r[2] > 0
                    THEN SaveProxies(r[1], proxy_file, backup_file)
                    ELSE <<proxy_file, backup_file>>
       IN  /\ proxies' = r[1]
           /\ proxy_file' = saved[1]
           /\ backup_file' = saved[2]
           /\ out' = [NoOut EXCEPT !.op = "remove_failed", !.count = r[2],
                                   !.max_fails = max_fails]
    /\ ret' = NoCall
    /\ UNCHANGED <<now, min_reuse_delay>>
    /\ UNCHANGED <<qvars, tvars, rvars, avars, svars>>

\* What a probe's request does
ProbeOutcomes == {"ok", "bad_status", "raise"}

ProbeAlwaysOk(o) == TRUE

\* success = response.status_code == 200; False in the except branch
ProbeSuccess(o) == o = "ok"

\* ProxyManager.test_proxy on a pool member, by what its request does.
HealthProbe(i, o) == TestProxy(i, ProbeSuccess(o))

\* ProxyChecker.check_all_proxies: judged[i] is what check_proxy returned
\* for proxies[i]; fail counts, save, remove_failed_proxies, proxy_stats.
CheckAllProxies(judged, max_fails) ==
    /\ proxies # <<>>
    /\ \A i \in 1..Len(proxies) :
          ~judged[i] => proxies[i].fail_count < MaxFailCount
    /\ LET list == [i \in 1..Len(proxies) |->
                      [proxies[i] EXCEPT !.fail_count =
                          IF judged[i] THEN 0 ELSE @ + 1]]
           saved == SaveProxies(list, proxy_file, backup_file)
           r == RemoveFailed(list, max_fails)
           again == IF r[2] > 0 THEN SaveProxies(r[1], saved[1], saved[2])
                    ELSE saved
       IN  /\ proxies' = r[1]
           /\ proxy_file' = again[1]
           /\ backup_file' = again[2]
           /\ out' = [NoOut EXCEPT
                        !.op = "check_all", !.count = r[2],
                        !.total = Len(proxies),
                        !.working = Cardinality({i \in 1..Len(proxies) : judged[i]}),
                        !.max_fails = max_fails, !.judged = judged]
    /\ ret' = NoCall
    /\ UNCHANGED <<now, min_reuse_delay>>
    /\ UNCHANGED <<qvars, tvars, rvars, avars, svars>>

\* ProxyManager(min_reuse_delay=...) on an empty store.
MaintInit ==
    /\ QueueInit
    /\ OthersIdle
    /\ proxies = <<>>
    /\ proxy_file = NoFile
    /\ backup_file = NoFile
    /\ now = 1
    /\ min_reuse_delay = MaxDelay
    /\ ret = NoCall

MaintNext ==
    \/ \E ps \in ProxySpecs : AddProxy(ps[1], ps[2], ps[3], ps[4])
    \/ \E ps \in ProxySpecs, success \in BOOLEAN :
          ReportProxyResult(ps[1], ps[2], success)
    \/ \E i \in 1..Len(proxies), o \in ProbeOutcomes : HealthProbe(i, o)
    \/ \E judged \in [1..Len(proxies) -> BOOLEAN], max_fails \in MaxFailsArgs :
          CheckAllProxies(judged, max_fails)
    \/ \E max_fails \in MaxFailsArgs : RemoveFailedProxies(max_fails)
    \/ \E max_fails \in MaxFailsArgs : GetProxy(None, max_fails, None, TRUE)

SpecMaint == MaintInit /\ [][MaintNext]_vars

\* The pools an import starts from: empty, or one proxy that has been
\* probed, used and reported.
ImportInit ==
    /\ QueueInit
    /\ OthersIdle
    /\ proxies \in
          {<<>>,
           <<[NewProxy("10.0.0.1", 8080, "http", None) EXCEPT
                !.last_used = 1, !.fail_count = 1, !.last_checked = 1,
                !.is_working = TRUE]>>}
    /\ proxy_file = IF proxies = <<>> THEN NoFile ELSE File(proxies)
    /\ backup_file = NoFile
    /\ now = 1
    /\ min_reuse_delay = MaxDelay
    /\ ret = NoCall

ImportNext ==
    \/ \E ps \in ProxySpecs : AddProxy(ps[1], ps[2], ps[3], ps[4])
    \/ \E text \in Texts, protocol \in DefaultProtocols :
          BulkAddFromText(text, protocol)

SpecImport == ImportInit /\ [][ImportNext]_vars

(***************************************************************************)
(* Account registry: AccountManager (account_manager.py).                  *)
(***************************************************************************)

ValidateAnything(email) == TRUE

\* AccountManager.validate_email:
\* ^[a-zA-Z0-9._%+-]+@[a-zA-Z0-9.-]+\.[a-zA-Z]{2,}$
ValidateEmail(email) ==
    email.local # "" /\ email.domain # "" /\ Len(email.tld) >= 2

\* Account._hash_password: base64(salt + pbkdf2(password, salt))
HashPassword(password, salt) == [salt |-> salt, key |-> <<password, salt>>]

\* Account.__post_init__: the three default platform entries
DefaultPlatforms ==
    [p \in {"twitter", "telegram", "discord"} |->
        [username |-> "", registered |-> FALSE, last_activity |-> NoTime]]

\* Account(email, password, recovery_email) after __post_init__
NewAccount(email, password, salt, recovery_email, proxy) ==
    [email |-> email, password |-> password,
     recovery_email |-> recovery_email, proxy |-> proxy,
     platforms |-> DefaultPlatforms,
     notes |-> "", password_hash |-> HashPassword(password, salt)]

GetAccountNothing(list, email) == 0

GetAccountFirst(list, email) == IF list = <<>> THEN 0 ELSE 1

\* AccountManager.get_account: index of the first account with this email,
\* 0 for None.
GetAccount(list, email) ==
    IF \E i \in 1..Len(list) : list[i].email = email
    THEN CHOOSE i \in 1..Len(list) :
            /\ list[i].email = email
            /\ \A j \in 1..(i - 1) : list[j].email # email
    ELSE 0

StoredWhole(acc) == acc

\* The record save_accounts dumps for an account: asdict without 'password'
Stored(acc) ==
    [k \in (DOMAIN acc) \ {"password"} |-> acc[k]]

\* AccountManager.save_accounts: the storage file after the dump and replace
SaveAccounts(list) == File([i \in 1..Len(list) |-> Stored(list[i])])

\* What the random module and secrets.token_bytes give a create_account
\* call: the generated username, the generated password, the salt.
Randoms == [local : {"abcdefgh", "qwertyui"}, password : {"generated"},
            salt : {"salt16"}]

\* AccountManager.create_account on a registry <<list, file>>: the error it
\* raises or "ok", and the registry it leaves.
Create(list, file, email, password, recovery_email, proxy, rnd) ==
    IF email # NoAddr /\ ~ValidateEmail(email)
    THEN [result |-> "invalid_email", list |-> list, file |-> file]
    ELSE IF recovery_email # NoAddr /\ ~ValidateEmail(recovery_email)
    THEN [result |-> "invalid_recovery", list |-> list, file |-> file]
    ELSE LET actual == IF email = NoAddr
                       THEN Addr(rnd.local, "example", "com")
                       ELSE email
             pw == IF password = None THEN rnd.password ELSE password
         IN  IF GetAccount(list, actual) # 0
             THEN [result |-> "duplicate", list |-> list, file |-> file]
             ELSE LET added == Append(list, NewAccount(actual, pw, rnd.salt,
                                                       recovery_email, proxy))
                  IN  [result |-> "ok", list |-> added,
                       file |-> SaveAccounts(added)]

EmailArgs ==
    {NoAddr, Addr("abcdefgh", "example", "com"), Addr("bob", "example", "com"),
     Addr("bob", "example", "c")}
RecoveryArgs == {NoAddr, Addr("rec", "example", "com"), Addr("rec", "", "")}
PasswordArgs == {None, "hunter22"}

\* AccountManager.create_account(email, password, recovery_email)
CreateAccount(email, password, recovery_email) ==
    /\ \E rnd \in Randoms :
          LET r == Create(accounts, storage_file, email, password,
                          recovery_email, NoAddress, rnd)
          IN  /\ Len(r.list) <= MaxAccounts
              /\ accounts' = r.list
              /\ storage_file' = r.file
              /\ acc_ret' = [NoAccRet EXCEPT
                                !.op = "create", !.email = email,
                                !.recovery_email = recovery_email,
                                !.result = r.result]
    /\ UNCHANGED <<qvars, pvars, out, tvars, rvars, svars, hret>>

\* platform and registered arguments: a default platform, a new one
PlatformArgs == {<<"twitter", TRUE>>, <<"galxe", FALSE>>}

SetPlatformNowhere(list, i, platform, entry) == list

\* account.platforms[platform] = entry on the i-th account: the key is
\* overwritten or created.
SetPlatform(list, i, platform, entry) ==
    LET old == list[i].platforms
        new == [p \in DOMAIN old \cup {platform} |->
                  IF p = platform THEN entry ELSE old[p]]
    IN  [list EXCEPT ![i].platforms = new]

\* AccountManager.update_platform_status(email, platform, username,
\* registered): the entry is overwritten or created, then save_accounts.
UpdatePlatformStatus(email, platform, username, registered) ==
    /\ LET i == GetAccount(accounts, email)
           entry == [username |-> username, registered |-> registered,
                     last_activity |-> now]
       IN  IF i = 0
           THEN /\ acc_ret' = [NoAccRet EXCEPT !.op = "update",
                                  !.email = email, !.result = "not_found"]
                /\ UNCHANGED <<accounts, storage_file>>
           ELSE LET list == SetPlatform(accounts, i, platform, entry)
                IN  /\ accounts' = list
                    /\ storage_file' = SaveAccounts(list)
                    /\ acc_ret' = [NoAccRet EXCEPT !.op = "update",
                                      !.email = email, !.result = "ok"]
    /\ UNCHANGED <<qvars, pvars, out, tvars, rvars, svars, hret>>

\* AccountManager.delete_account(email)
DeleteAccount(email) ==
    /\ LET i == GetAccount(accounts, email)
       IN  IF i = 0
           THEN /\ acc_ret' = [NoAccRet EXCEPT !.op = "delete",
                                  !.email = email, !.result = "not_found"]
                /\ UNCHANGED <<accounts, storage_file>>
           ELSE LET list == SubSeq(accounts, 1, i - 1) \o
                            SubSeq(accounts, i + 1, Len(accounts))
                IN  /\ accounts' = list
                    /\ storage_file' = SaveAccounts(list)
                    /\ acc_ret' = [NoAccRet EXCEPT !.op = "delete",
                                      !.email = email, !.result = "ok"]
    /\ UNCHANGED <<qvars, pvars, out, tvars, rvars, svars, hret>>

\* What one iteration of bulk_create_accounts draws: the username built from
\* the millisecond timestamp and four random letters, and create_account's
\* random values.
BulkDraws ==
    [local : {"user1aaaa", "user1bbbb"},
     rnd : {r \in Randoms : r.local = "abcdefgh"}]

\* domain arguments: "example.com", "localhost"
DomainArgs == {Addr("", "example", "com"), Addr("", "localhost", "")}

\* The for loop of bulk_create_accounts from iteration k on; an error of
\* create_account is logged and the loop goes on. st = [list, file, created].
RECURSIVE BulkCreateLoop(_, _, _, _)
BulkCreateLoop(draws, domain, k, st) ==
    IF k > Len(draws) THEN st
    ELSE LET r == Create(st.list, st.file,
                         Addr(draws[k].local, domain.domain, domain.tld),
                         draws[k].rnd.password, NoAddr, NoAddress,
                         draws[k].rnd)
         IN  BulkCreateLoop(draws, domain, k + 1,
                [list |-> r.list, file |-> r.file,
                 created |-> IF r.result = "ok"
                             THEN st.created + 1 ELSE st.created])

\* AccountManager.bulk_create_accounts(count, domain)
BulkCreateAccounts(count, domain) ==
    /\ \E draws \in [1..count -> BulkDraws] :
          LET st == BulkCreateLoop(draws, domain, 1,
                        [list |-> accounts, file |-> storage_file,
                         created |-> 0])
          IN  /\ Len(st.list) <= MaxAccounts
              /\ accounts' = st.list
              /\ storage_file' = st.file
              /\ acc_ret' = [NoAccRet EXCEPT
                                !.op = "bulk_create",
                                !.email = domain,
                                !.result = "ok", !.count = st.created]
    /\ UNCHANGED <<qvars, pvars, out, tvars, rvars, svars, hret>>

\* AccountManager() with no storage file, beside an idle pool and queue.
AccountsInit ==
    /\ QueueInit
    /\ PoolIdle
    /\ out = NoOut
    /\ ThreadsIdle
    /\ SharedIdle
    /\ RegistryIdle
    /\ hret = NoHRet
    /\ StoreIdle
    /\ cpc = "run"

AccountsNext ==
    \/ \E email \in EmailArgs, password \in PasswordArgs,
          recovery_email \in RecoveryArgs :
          CreateAccount(email, password, recovery_email)
    \/ \E email \in EmailArgs, pr \in PlatformArgs :
          UpdatePlatformStatus(email, pr[1], "handle", pr[2])
    \/ \E email \in EmailArgs : DeleteAccount(email)
    \/ \E count \in 1..MaxBulk, domain \in DomainArgs :
          BulkCreateAccounts(count, domain)

SpecAccounts == AccountsInit /\ [][AccountsNext]_vars


(***************************************************************************)
(* Passwords: AccountManager.generate_password, Account._hash_password and *)
(* Account.verify_password (account_manager.py).                           *)
(***************************************************************************)

\* uppercase, lowercase, digits, special: one character stands for each
\* class; all_chars is their union.
CharClasses == <<{"A"}, {"a"}, {"1"}, {"!"}>>

GeneratedFillOnly(required, fill, perm) == fill

\* The list generate_password joins: the four required characters, extended
\* by the fill, shuffled by perm.
Generated(required, fill, perm) ==
    LET password == required \o fill
    IN  [i \in 1..Len(password) |-> password[perm[i]]]

\* AccountManager.generate_password(length): range(length - 4) is empty for
\* a length under 4.
GeneratePassword(length) ==
    /\ \E required \in {r \in [1..4 -> UNION Range(CharClasses)] :
                          \A c \in 1..4 : r[c] \in CharClasses[c]},
          fill \in [1..(length - 4) -> UNION Range(CharClasses)] :
          \E perm \in Permutations(1..(4 + Len(fill))) :
             acc_ret' = [op |-> "generate_password", length |-> length,
                         password |-> Generated(required, fill, perm)]
    /\ UNCHANGED <<accounts, storage_file, hret>>
    /\ UNCHANGED <<qvars, pvars, out, tvars, rvars, svars>>

VerifyAnything(password_hash, password) == TRUE

\* Account.verify_password on a stored password_hash: False for None or '',
\* False when b64decode raises or gives no 16-byte salt and key (a record
\* without salt), else the key recomputed with the stored salt is compared.
VerifyPassword(password_hash, password) ==
    IF password_hash.key = <<>> THEN FALSE
    ELSE IF password_hash.salt = "" THEN FALSE
    ELSE HashPassword(password, password_hash.salt).key = password_hash.key

\* account.verify_password(password) on an account whose password_hash is
\* what _hash_password gave for p with a salt, or is missing or damaged.
CheckPassword(password_hash, password) ==
    /\ acc_ret' = [op |-> "verify_password", password_hash |-> password_hash,
                   password |-> password,
                   result |-> VerifyPassword(password_hash, password)]
    /\ UNCHANGED <<accounts, storage_file, hret>>
    /\ UNCHANGED <<qvars, pvars, out, tvars, rvars, svars>>

PasswordNext ==
    \/ \E length \in 0..MaxPasswordLen : GeneratePassword(length)
    \/ \E p \in {"hunter22", "generated", ""}, salt \in {"salt16", "pepper16"},
          q \in {"hunter22", "generated", ""} :
          CheckPassword(HashPassword(p, salt), q)
    \/ \E damaged \in {[salt |-> "", key |-> <<>>],
                       [salt |-> "", key |-> <<"?">>]},
          q \in {"hunter22", "generated", ""} :
          CheckPassword(damaged, q)

SpecPasswords == Init /\ [][PasswordNext]_vars


(***************************************************************************)
(* Worker handlers on the registry and the pool: AirdropWorker             *)
(* _create_account, _register_platform, _participate_airdrop, each inside  *)
(* process_task's try/except (worker.py).                                  *)
(***************************************************************************)

HandledAsError(op, email, platform, raised, success, message, name) ==
    [op |-> op, email |-> email, platform |-> platform, raised |-> TRUE,
     success |-> FALSE, message |-> ErrorMessage, platform_username |-> name]

\* The Result of a task: the dict the handler returned, or the envelope
\* process_task leaves when the handler raised.
Handled(op, email, platform, raised, success, message, name) ==
    [op |-> op, email |-> email, platform |-> platform, raised |-> raised,
     success |-> success /\ ~raised,
     message |-> IF raised THEN ErrorMessage ELSE message,
     platform_username |-> name]

\* process_task on a create_account task: get_proxy() when use_proxy, the
\* generated email, create_account, the simulated outcome o.
HandleCreateAccount(domain, use_proxy, o) ==
    /\ \E d \in BulkDraws :
          LET first == AvailableSet(proxies, None, 3, None, TRUE, now,
                                    min_reuse_delay)
              second == AvailableSet(proxies, None, 3, None, FALSE, now,
                                     min_reuse_delay)
              avail == IF first = {} THEN second ELSE first
              i == IF use_proxy /\ avail # {} THEN Best(proxies, avail) ELSE 0
              list == IF i # 0 THEN [proxies EXCEPT ![i].last_used = now]
                      ELSE proxies
              saved == IF i # 0 THEN SaveProxies(list, proxy_file, backup_file)
                       ELSE <<proxy_file, backup_file>>
              email == Addr(d.local, domain.domain, domain.tld)
              address == IF i # 0
                         THEN Address(proxies[i].protocol, proxies[i].ip,
                                      proxies[i].port)
                         ELSE NoAddress
              r == IF use_proxy /\ i = 0
                   THEN [result |-> "no_proxy", list |-> accounts,
                         file |-> storage_file]
                   ELSE Create(accounts, storage_file, email, None, NoAddr,
                               address, d.rnd)
          IN  /\ Len(r.list) <= MaxAccounts
              /\ proxies' = list
              /\ proxy_file' = saved[1]
              /\ backup_file' = saved[2]
              /\ accounts' = r.list
              /\ storage_file' = r.file
              /\ hret' = Handled("create_account", email, "",
                            r.result \notin {"ok", "no_proxy"},
                            r.result = "ok" /\ o = "success",
                            IF r.result = "no_proxy" THEN "No proxies available"
                            ELSE IF o = "success"
                                 THEN "Account created successfully"
                                 ELSE "Failed to create account",
                            "")
    /\ ret' = NoCall
    /\ UNCHANGED <<now, min_reuse_delay, acc_ret>>
    /\ UNCHANGED <<qvars, out, tvars, rvars, svars>>

\* process_task on a register_platform task.  On a simulated failure with a
\* proxy on the account the handler calls
\* self.proxy_manager.report_proxy_failure, which ProxyManager does not
\* define: the AttributeError is caught by process_task.
HandleRegisterPlatform(email, platform, o) ==
    /\ LET i == GetAccount(accounts, email)
           name == email.local \o "_" \o platform
           entry == [username |-> name, registered |-> TRUE,
                     last_activity |-> now]
       IN  IF email = NoAddr \/ platform = ""
           THEN /\ hret' = Handled("register_platform", email, platform,
                              FALSE, FALSE,
                              "Missing email or platform", "")
                /\ UNCHANGED <<accounts, storage_file>>
           ELSE IF i = 0
           THEN /\ hret' = Handled("register_platform", email, platform,
                              FALSE, FALSE, "Account not found", "")
                /\ UNCHANGED <<accounts, storage_file>>
           ELSE IF o = "success"
           THEN LET list == SetPlatform(accounts, i, platform, entry)
                IN  /\ accounts' = list
                    /\ storage_file' = SaveAccounts(list)
                    /\ hret' = Handled("register_platform", email, platform,
                              FALSE, TRUE,
                                  "Successfully registered", name)
           ELSE /\ hret' = Handled("register_platform", email, platform,
                              accounts[i].proxy # NoAddress, FALSE,
                              "Failed to register", "")
                /\ UNCHANGED <<accounts, storage_file>>
    /\ UNCHANGED <<pvars, acc_ret>>
    /\ UNCHANGED <<qvars, out, tvars, rvars, svars>>

\* process_task on an airdrop_participation task with an airdrop_name.
HandleParticipateAirdrop(email, platform, o) ==
    /\ LET i == GetAccount(accounts, email)
       IN  IF email = NoAddr \/ platform = ""
           THEN /\ hret' = Handled("airdrop_participation", email, platform,
                              FALSE, FALSE,
                              "Missing required task data", "")
                /\ UNCHANGED <<accounts, storage_file>>
           ELSE IF i = 0
           THEN /\ hret' = Handled("airdrop_participation", email, platform,
                              FALSE, FALSE, "Account not found", "")
                /\ UNCHANGED <<accounts, storage_file>>
           ELSE IF \/ platform \notin DOMAIN accounts[i].platforms
                   \/ ~accounts[i].platforms[platform].registered
           THEN /\ hret' = Handled("airdrop_participation", email, platform,
                              FALSE, FALSE,
                              "Account not registered", "")
                /\ UNCHANGED <<accounts, storage_file>>
           ELSE IF o = "success"
           THEN LET list == [accounts EXCEPT ![i].notes =
                                IF @ # "" THEN @ \o "\n" \o "note" ELSE "note"]
                IN  /\ Len(accounts[i].notes) < MaxNoteLen
                    /\ accounts' = list
                    /\ storage_file' = SaveAccounts(list)
                    /\ hret' = Handled("airdrop_participation", email, platform,
                              FALSE, TRUE,
                                  "Successfully participated", "")
           ELSE /\ hret' = Handled("airdrop_participation", email, platform,
                              FALSE, FALSE,
                              "Failed to participate", "")
                /\ UNCHANGED <<accounts, storage_file>>
    /\ UNCHANGED <<pvars, acc_ret>>
    /\ UNCHANGED <<qvars, out, tvars, rvars, svars>>

\* The tasks a worker handles, the email of a task being one the registry
\* holds, one it does not hold, or none; delete_account and add_proxy as the
\* other users of the registry and the pool.
HandlerNext ==
  LET TaskEmails == {accounts[i].email : i \in 1..Len(accounts)}
                        \cup {NoAddr, Addr("ghost", "example", "com")}
  IN
    \/ \E domain \in DomainArgs, use_proxy \in BOOLEAN,
          o \in {"success", "failure"} :
          HandleCreateAccount(domain, use_proxy, o)
    \/ \E email \in TaskEmails, platform \in {"twitter", ""},
          o \in {"success", "failure"} :
          HandleRegisterPlatform(email, platform, o)
    \/ \E email \in TaskEmails, platform \in {"twitter", "galxe", ""},
          o \in {"success", "failure"} :
          HandleParticipateAirdrop(email, platform, o)
    \/ \E i \in 1..Len(accounts) :
          DeleteAccount(accounts[i].email)
    \/ AddProxy("10.0.0.1", 8080, "http", None)

\* A worker with an empty registry and an empty pool, its tasks handled
\* within one tick of the clock.
SpecHandlers == Init /\ [][HandlerNext]_vars


(***************************************************************************)
(* The two stores on disk: load_accounts and save_accounts                 *)
(* (account_manager.py), load_proxies and save_proxies (proxy_manager.py). *)
(* One process saves, step by step; a second process constructs its own    *)
(* AccountManager or ProxyManager on the same files.                       *)
(***************************************************************************)

\* A file json.load cannot parse: empty, truncated, not JSON
Garbage == File(<<[garbage |-> TRUE]>>)

\* The loop over the parsed data of a store: each record goes through
\* Account(**acc_data) or Proxy(**proxy_data), which raises on a missing
\* required field or an unknown one; the records before the first such one
\* are already appended.  An account record without password_hash is hashed
\* by __post_init__.
LoadRecords(store, data) ==
    LET Builds(rec) ==
            IF store = "accounts"
            THEN /\ {"email", "password"} \subseteq DOMAIN rec
                 /\ DOMAIN rec \subseteq
                        DOMAIN NewAccount(NoAddr, "", "", NoAddr, NoAddress)
            ELSE /\ {"ip", "port"} \subseteq DOMAIN rec
                 /\ DOMAIN rec \subseteq DOMAIN NewProxy("", 0, "", None)
        Built(rec) ==
            IF store = "accounts" /\ "password_hash" \notin DOMAIN rec
            THEN [k \in DOMAIN rec \cup {"password_hash"} |->
                     IF k = "password_hash"
                     THEN HashPassword(rec.password, "salt16") ELSE rec[k]]
            ELSE rec
        bad == {k \in 1..Len(data) : ~Builds(data[k])}
        n == IF bad = {} THEN Len(data)
             ELSE (CHOOSE k \in bad : \A j \in bad : k <= j) - 1
    IN  [ok |-> bad = {}, list |-> [k \in 1..n |-> Built(data[k])]]

\* AccountManager() of the second process: load_accounts.  On an exception
\* the storage file is renamed to its timestamped backup.
LoadAccounts ==
    /\ LET r == LoadRecords("accounts", storage_file.data)
       IN  /\ seen' = [store |-> "accounts", list |-> r.list,
                       file |-> storage_file]
           /\ IF storage_file.exists /\ ~r.ok
              THEN /\ renamed_file' = storage_file
                   /\ storage_file' = NoFile
              ELSE UNCHANGED <<storage_file, renamed_file>>
    /\ UNCHANGED <<accounts, acc_ret, hret, tmp_file, saving, cpc>>
    /\ UNCHANGED <<qvars, pvars, out, tvars, rvars>>

\* ProxyManager() of the second process: load_proxies.  On an exception the
\* list is replaced by the one of proxies.json.bak if that file loads.
LoadProxies ==
    /\ LET r == LoadRecords("proxies", proxy_file.data)
           b == LoadRecords("proxies", backup_file.data)
       IN  seen' = [store |-> "proxies",
                    list |-> IF proxy_file.exists /\ ~r.ok
                                /\ backup_file.exists /\ b.ok
                             THEN b.list ELSE r.list,
                    file |-> proxy_file]
    /\ UNCHANGED <<tmp_file, renamed_file, saving, cpc>>
    /\ UNCHANGED <<qvars, pvars, out, tvars, rvars, avars>>

\* save_accounts of the first process: the dump into accounts.json.tmp,
\* then os.replace onto accounts.json.
SaveAccountsSteps ==
    /\ \/ /\ saving.at = "idle"
          /\ tmp_file' = SaveAccounts(accounts)
          /\ saving' = [saving EXCEPT !.at = "tmp_written", !.old = storage_file]
          /\ UNCHANGED storage_file
       \/ /\ saving.at = "tmp_written"
          /\ storage_file' = tmp_file
          /\ tmp_file' = NoFile
          /\ saving' = [saving EXCEPT !.at = "idle", !.old = NoFile]
    /\ UNCHANGED <<accounts, acc_ret, hret, renamed_file, seen, cpc>>
    /\ UNCHANGED <<qvars, pvars, out, tvars, rvars>>

\* save_proxies of the first process: the copy of proxies.json to
\* proxies.json.bak, open(proxy_file, 'w') which truncates the file, the dump.
SaveProxiesSteps ==
    /\ \/ /\ saving.at = "idle"
          /\ backup_file' = SaveProxies(proxies, proxy_file, backup_file)[2]
          /\ saving' = [at |-> "backup_copied", old |-> proxy_file,
                         prior |-> IF /\ proxy_file.exists
                                      /\ LoadRecords("proxies",
                                                     proxy_file.data).ok
                                   THEN proxy_file ELSE saving.prior]
          /\ UNCHANGED proxy_file
       \/ /\ saving.at = "backup_copied"
          /\ proxy_file' = Garbage
          /\ saving' = [saving EXCEPT !.at = "opened"]
          /\ UNCHANGED backup_file
       \/ /\ saving.at = "opened"
          /\ proxy_file' = File(proxies)
          /\ saving' = [saving EXCEPT !.at = "idle", !.old = NoFile]
          /\ UNCHANGED backup_file
    /\ UNCHANGED <<proxies, now, min_reuse_delay, ret>>
    /\ UNCHANGED <<tmp_file, renamed_file, seen, cpc>>
    /\ UNCHANGED <<qvars, out, tvars, rvars, avars>>

\* The first process holds its accounts and proxies; the files are whatever
\* the disk holds: none, one written by a save, one of the old format (the
\* password, no password_hash), one with a record that cannot be built,
\* one that does not parse.
StoreInit ==
    LET a1 == NewAccount(Addr("alice", "example", "com"), "generated",
                         "salt16", NoAddr, NoAddress)
        a2 == NewAccount(Addr("bob", "example", "com"), "generated",
                         "salt16", NoAddr, NoAddress)
        old == [k \in (DOMAIN a1) \ {"password_hash"} |-> a1[k]]
        p1 == NewProxy("10.0.0.1", 8080, "http", None)
        p2 == NewProxy("10.0.0.2", 3128, "http", None)
    IN  /\ QueueInit
        /\ out = NoOut
        /\ ThreadsIdle
        /\ SharedIdle
        /\ hret = NoHRet
        /\ acc_ret = NoAccRet
        /\ StoreIdle
        /\ cpc = "run"
        /\ now = 1
        /\ min_reuse_delay = 0
        /\ ret = NoCall
        /\ accounts \in {<<>>, <<a1>>, <<a1, a2>>}
        /\ storage_file \in {NoFile, SaveAccounts(accounts), File(<<old>>),
                             File(<<old, Stored(a2)>>), Garbage}
        /\ proxies \in {<<>>, <<p1>>}
        /\ proxy_file \in {NoFile, File(<<p2>>), File(<<p2, [ip |-> "10.0.0.3"]>>),
                           Garbage}
        /\ backup_file \in {NoFile, File(<<p1, p2>>)}

\* The saving process is stopped (killed, power loss) in the middle of a
\* save: the files stay as the save left them, and the process, started
\* again with the same collections, is free to save again.
SaveInterrupted ==
    /\ saving.at # "idle"
    /\ saving' = [saving EXCEPT !.at = "idle", !.old = NoFile]
    /\ UNCHANGED <<tmp_file, renamed_file, seen, cpc>>
    /\ UNCHANGED <<qvars, pvars, out, tvars, rvars, avars>>

StoreNext ==
    \/ LoadAccounts
    \/ LoadProxies
    \/ SaveAccountsSteps
    \/ SaveProxiesSteps
    \/ SaveInterrupted

SpecStore == StoreInit /\ [][StoreNext]_vars


(***************************************************************************)
(* The two service loops: AirdropWorker.run (worker.py) and                *)
(* ProxyChecker.run (proxy_checker.py), each 'while True' around a         *)
(* try/except Exception.                                                   *)
(***************************************************************************)

AfterExceptionExit(pc) == "exited"

\* except Exception: the error is logged, then time.sleep(30) in the worker
\* and time.sleep(300) in the checker; pc is where the exception was raised.
AfterException(pc) == "pause"

\* The Redis call of the iteration raises (the connection is down): blpop
\* before a task is taken, or rpush with the Result in hand, which is lost.
LoopRaise(w) ==
    /\ wpc[w] \in {"idle", "push"}
    /\ wpc' = [wpc EXCEPT ![w] = AfterException(@)]
    /\ wresult' = [wresult EXCEPT ![w] = NoResult]
    /\ wseq' = [wseq EXCEPT ![w] = 0]
    /\ woutcome' = [woutcome EXCEPT ![w] = None]
    /\ UNCHANGED <<pvars, xvars>>
    /\ UNCHANGED <<task_queue, result_queue, dpc, task_ids, pending_ids,
                   results, result_data, elapsed, timeout, uuid_next, clock,
                   pushed, deq_count, res_count, seen_at_poll, removed>>

\* One iteration of ProxyChecker(max_fails=1).run: import_from_redis, which
\* catches its own exceptions (text is the value of 'import_proxies', <<>>
\* when the key is absent), then check_all_proxies, where check_proxy
\* returned ok for every proxy and redis.set('proxy_stats') raises unless
\* published.
CheckerIteration(text, ok, published) ==
    /\ cpc = "run"
    /\ LET st == BulkLoop(text, "http", 1,
                          [list |-> proxies, file |-> proxy_file,
                           bak |-> backup_file, added |-> 0])
           imported == IF text = <<>> THEN <<proxy_file, backup_file>>
                       ELSE SaveProxies(st.list, st.file, st.bak)
           list == [i \in 1..Len(st.list) |->
                      [st.list[i] EXCEPT !.fail_count = IF ok THEN 0 ELSE @ + 1]]
           saved == SaveProxies(list, imported[1], imported[2])
           r == RemoveFailed(list, 1)
           again == IF r[2] > 0 THEN SaveProxies(r[1], saved[1], saved[2])
                    ELSE saved
       IN  IF st.list = <<>>
           THEN /\ proxies' = st.list
                /\ proxy_file' = imported[1]
                /\ backup_file' = imported[2]
                /\ cpc' = "sleep"
           ELSE /\ proxies' = r[1]
                /\ proxy_file' = again[1]
                /\ backup_file' = again[2]
                /\ cpc' = IF published THEN "sleep" ELSE AfterException(cpc)
    /\ ret' = NoCall
    /\ UNCHANGED <<now, min_reuse_delay>>
    /\ UNCHANGED <<tmp_file, renamed_file, saving, seen>>
    /\ UNCHANGED <<qvars, out, tvars, rvars, avars>>

\* The steps of one worker's loop: blpop with a task and process_task;
\* blpop returning None after its timeout, then time.sleep(5); rpush and the
\* sleep between tasks; an exception; the end of a sleep, which starts the
\* next iteration of 'while True'.
WorkerLoop(w) ==
    \/ Blpop(w)
    \/ /\ wpc[w] = "idle"
       /\ task_queue = <<>>
       /\ wpc' = [wpc EXCEPT ![w] = "sleep"]
       /\ UNCHANGED <<pvars, xvars>>
       /\ UNCHANGED <<task_queue, result_queue, wresult, wseq, woutcome, dpc,
                      task_ids, pending_ids, results, result_data, elapsed,
                      timeout, uuid_next, clock, pushed, deq_count, res_count,
                      seen_at_poll, removed>>
    \/ PushResult(w)
    \/ LoopRaise(w)
    \/ /\ wpc[w] \in {"sleep", "pause"}
       /\ wpc' = [wpc EXCEPT ![w] = "idle"]
       /\ UNCHANGED <<pvars, xvars>>
       /\ UNCHANGED <<task_queue, result_queue, wresult, wseq, woutcome, dpc,
                      task_ids, pending_ids, results, result_data, elapsed,
                      timeout, uuid_next, clock, pushed, deq_count, res_count,
                      seen_at_poll, removed>>

\* The steps of the checker's loop: an iteration; the end of a sleep, which
\* starts the next iteration of 'while True'.
CheckerLoop ==
    \/ \E text \in {<<>>, <<Line("proxy", None, "10.0.0.1", 8080)>>},
          ok \in BOOLEAN, published \in BOOLEAN :
          CheckerIteration(text, ok, published)
    \/ /\ cpc \in {"sleep", "pause"}
       /\ cpc' = "run"
       /\ UNCHANGED <<tmp_file, renamed_file, saving, seen>>
       /\ UNCHANGED <<qvars, pvars, out, tvars, rvars, avars>>

LoopNext ==
    \/ WorkerLoop("worker-1")
    \/ CheckerLoop
    \/ \E tt \in TaskTypes : EnqueueTask(tt)

\* Both processes are scheduled: a loop that can take a step takes one.
SpecLoops ==
    Init /\ [][LoopNext]_vars /\ WF_vars(WorkerLoop("worker-1"))
         /\ WF_vars(CheckerLoop)


(***************************************************************************)
(* The import side-channel: the dashboard's api_import_proxies             *)
(* (admin-ui/app.py) sets the Redis key 'import_proxies', ProxyChecker's   *)
(* import_from_redis (proxy_checker.py) reads it, imports it and deletes   *)
(* it.  Each Redis command and bulk_add_from_text is one step.             *)
(***************************************************************************)

\* The texts posted to the dashboard
ImportTexts ==
    {<<Line("blank", None, "", 0)>>,
     <<BadLine>>,
     <<Line("proxy", None, "10.0.0.1", 8080)>>,
     <<Line("comment", None, "", 0), Line("proxy", "socks5", "10.0.0.2", 1080)>>}

\* POST /api/import_proxies: refused when proxy_list.strip() is empty, else
\* redis_client.set('import_proxies', proxy_list)
ApiImportProxies(text) ==
    /\ \E k \in 1..Len(text) : text[k].kind # "blank"
    /\ import_proxies' = text
    /\ key_fresh' = TRUE
    /\ UNCHANGED <<ipc, proxy_list, imp_added, managers, dret>>
    /\ UNCHANGED <<qvars, pvars, out, tvars, avars, svars>>

\* if added > 0:
AddedSome(count) == count > 0

\* import_from_redis: proxy_list = self.redis.get('import_proxies'); with
\* the key absent the call ends here and nothing has changed.
ImportGet ==
    /\ ipc = "idle"
    /\ import_proxies # <<>>
    /\ proxy_list' = import_proxies
    /\ ipc' = "read"
    /\ key_fresh' = FALSE
    /\ UNCHANGED <<import_proxies, imp_added, managers, dret>>
    /\ UNCHANGED <<qvars, pvars, out, tvars, avars, svars>>

\* import_from_redis: added = self.proxy_manager.bulk_add_from_text(text)
ImportAdd ==
    /\ ipc = "read"
    /\ LET st == BulkLoop(proxy_list, "http", 1,
                          [list |-> proxies, file |-> proxy_file,
                           bak |-> backup_file, added |-> 0])
           saved == SaveProxies(st.list, st.file, st.bak)
       IN  /\ proxies' = st.list
           /\ proxy_file' = saved[1]
           /\ backup_file' = saved[2]
           /\ out' = [NoOut EXCEPT !.op = "bulk_add", !.count = st.added,
                                   !.text = proxy_list, !.protocol = "http"]
           /\ imp_added' = st.added
    /\ ipc' = "added"
    /\ ret' = NoCall
    /\ UNCHANGED <<now, min_reuse_delay>>
    /\ UNCHANGED <<import_proxies, proxy_list, key_fresh, managers, dret>>
    /\ UNCHANGED <<qvars, tvars, avars, svars>>

\* import_from_redis: if added > 0: self.redis.delete('import_proxies'),
\* and the call returns.
ImportDelete ==
    /\ ipc = "added"
    /\ import_proxies' = IF AddedSome(imp_added) THEN <<>> ELSE import_proxies
    /\ key_fresh' = IF AddedSome(imp_added) THEN FALSE ELSE key_fresh
    /\ ipc' = "idle"
    /\ proxy_list' = <<>>
    /\ imp_added' = 0
    /\ UNCHANGED <<managers, dret>>
    /\ UNCHANGED <<qvars, pvars, out, tvars, avars, svars>>

ImportKeyNext ==
    \/ \E text \in ImportTexts : ApiImportProxies(text)
    \/ ImportGet
    \/ ImportAdd
    \/ ImportDelete

\* The dashboard and a ProxyChecker with an empty pool, the key absent.
SpecImportKey == Init /\ [][ImportKeyNext]_vars


(***************************************************************************)
(* The account store across processes: the Dispatcher (main.py) and a      *)
(* second worker each hold their own AccountManager, loaded from           *)
(* accounts.json when the process constructs it; the first worker handles  *)
(* the tasks and saves accounts.json.  The Dispatcher's operations are     *)
(* taken with one task, from the Result wait_for_results collected on.     *)
(***************************************************************************)

\* The Result process_task returns for a handled task: its envelope,
\* updated with the dict the handler returned unless the handler raised.
ResultDict(h) ==
    LET base == [type |-> h.op, success |-> h.success, message |-> h.message]
    IN  IF h.raised THEN base
        ELSE IF /\ h.op = "create_account"
                /\ h.message # "No proxies available"
        THEN base @@ [account_email |-> h.email]
        ELSE IF /\ h.op = "register_platform"
                /\ h.message \in {"Successfully registered",
                                  "Failed to register"}
        THEN base @@ [platform |-> h.platform,
                      platform_username |-> h.platform_username]
        ELSE IF /\ h.op = "airdrop_participation"
                /\ h.message \in {"Successfully participated",
                                  "Failed to participate"}
        THEN base @@ [airdrop_name |-> "airdrop", platform |-> h.platform]
        ELSE base

\* result.get(key) for a key holding an email; NoAddr is None
ResultGet(result, key) ==
    IF key \in DOMAIN result THEN result[key] ELSE NoAddr

\* The list the Dispatcher builds from a Result: the account of its own
\* AccountManager with the email under this key, when the Result is a
\* success and get_account finds it.
Collected(result, key) ==
    LET i == GetAccount(managers["dispatcher"], ResultGet(result, key))
    IN  IF result.success /\ i # 0 THEN <<managers["dispatcher"][i]>>
        ELSE <<>>

\* AirdropOrchestrator.create_accounts(count=1) from the Result of its task
CreateAccountsReturn ==
    /\ hret.op = "create_account"
    /\ dret' = [op |-> "create_accounts", result |-> ResultDict(hret),
                returned |-> Collected(ResultDict(hret), "account_email")]
    /\ UNCHANGED <<import_proxies, ipc, proxy_list, imp_added, key_fresh,
                   managers>>
    /\ UNCHANGED <<qvars, pvars, out, tvars, avars, svars>>

\* AirdropOrchestrator.participate_in_airdrop from the Result of the task
\* it enqueued for an account of get_accounts_by_platform(platform).
ParticipateInAirdropReturn ==
    /\ hret.op = "airdrop_participation"
    /\ \E i \in 1..Len(managers["dispatcher"]) :
          LET account == managers["dispatcher"][i]
          IN  /\ account.email = hret.email
              /\ hret.platform \in DOMAIN account.platforms
              /\ account.platforms[hret.platform].registered
    /\ dret' = [op |-> "participate_in_airdrop", result |-> ResultDict(hret),
                returned |-> Collected(ResultDict(hret), "email")]
    /\ UNCHANGED <<import_proxies, ipc, proxy_list, imp_added, key_fresh,
                   managers>>
    /\ UNCHANGED <<qvars, pvars, out, tvars, avars, svars>>

\* AccountManager() in process p, started again: load_accounts, which on an
\* exception renames the storage file to its timestamped backup.
Construct(p) ==
    /\ LET r == LoadRecords("accounts", storage_file.data)
       IN  /\ managers' = [managers EXCEPT ![p] = r.list]
           /\ IF storage_file.exists /\ ~r.ok
              THEN /\ renamed_file' = storage_file
                   /\ storage_file' = NoFile
              ELSE UNCHANGED <<storage_file, renamed_file>>
    /\ UNCHANGED <<import_proxies, ipc, proxy_list, imp_added, key_fresh,
                   dret>>
    /\ UNCHANGED <<accounts, acc_ret, hret, tmp_file, saving, seen, cpc>>
    /\ UNCHANGED <<qvars, pvars, out, tvars>>

\* process_task of the second worker on a register_platform task for an
\* account without proxy.
HandleRegisterPlatformOther(email, platform, o) ==
    /\ LET list == managers["worker-2"]
           i == GetAccount(list, email)
           name == email.local \o "_" \o platform
           entry == [username |-> name, registered |-> TRUE,
                     last_activity |-> now]
       IN  IF i = 0
           THEN /\ hret' = Handled("register_platform", email, platform,
                              FALSE, FALSE, "Account not found", "")
                /\ UNCHANGED <<managers, storage_file>>
           ELSE IF o = "success"
           THEN LET new == SetPlatform(list, i, platform, entry)
                IN  /\ managers' = [managers EXCEPT !["worker-2"] = new]
                    /\ storage_file' = SaveAccounts(new)
                    /\ hret' = Handled("register_platform", email, platform,
                                  FALSE, TRUE, "Successfully registered", name)
           ELSE /\ hret' = Handled("register_platform", email, platform,
                              FALSE, FALSE, "Failed to register", "")
                /\ UNCHANGED <<managers, storage_file>>
    /\ UNCHANGED <<import_proxies, ipc, proxy_list, imp_added, key_fresh,
                   dret>>
    /\ UNCHANGED <<accounts, acc_ret, svars>>
    /\ UNCHANGED <<qvars, pvars, out, tvars>>

\* The three processes constructed on the same accounts.json: absent, or a
\* file written with plaintext passwords holding an account registered on
\* twitter.
SharedInit ==
    LET a1 == NewAccount(Addr("alice", "example", "com"), "generated",
                         "salt16", NoAddr, NoAddress)
        reg == SetPlatform(<<a1>>, 1, "twitter",
                           [username |-> "alice_twitter", registered |-> TRUE,
                            last_activity |-> 0])[1]
    IN  /\ QueueInit
        /\ PoolIdle
        /\ out = NoOut
        /\ ThreadsIdle
        /\ hret = NoHRet
        /\ acc_ret = NoAccRet
        /\ StoreIdle
        /\ cpc = "run"
        /\ import_proxies = <<>>
        /\ ipc = "idle"
        /\ proxy_list = <<>>
        /\ imp_added = 0
        /\ key_fresh = FALSE
        /\ dret = NoDRet
        /\ storage_file \in {NoFile, File(<<reg>>)}
        /\ accounts = LoadRecords("accounts", storage_file.data).list
        /\ managers = [p \in Others |-> accounts]

SharedNext ==
  LET TaskEmails == {accounts[i].email : i \in 1..Len(accounts)}
  IN
    \/ \E domain \in DomainArgs, use_proxy \in BOOLEAN,
          o \in {"success", "failure"} :
          HandleCreateAccount(domain, use_proxy, o)
    \/ \E email \in TaskEmails, o \in {"success", "failure"} :
          HandleRegisterPlatform(email, "twitter", o)
    \/ \E email \in TaskEmails, o \in {"success", "failure"} :
          HandleRegisterPlatformOther(email, "twitter", o)
    \/ \E email \in TaskEmails, o \in {"success", "failure"} :
          HandleParticipateAirdrop(email, "twitter", o)
    \/ \E p \in Others : Construct(p)
    \/ CreateAccountsReturn
    \/ ParticipateInAirdropReturn

SpecShared == SharedInit /\ [][SharedNext]_vars


(***************************************************************************)
(* Claims on the queue protocol.                                           *)
(***************************************************************************)

Seqs == 1..Len(pushed)
QueuedSeqs == {task_queue[i].seq : i \in 1..Len(task_queue)}
HeldSeqs == {wseq[w] : w \in Workers}

\* C1: every task pushed onto the task channel is dequeued by at most one
\* worker, and a dequeued task is never on the channel again, also when the
\* worker that took it stops before emitting a result.
C1_DequeuedAtMostOnce ==
    /\ \A s \in Seqs :
          /\ deq_count[s] <= 1
          /\ deq_count[s] >= 1 => s \notin QueuedSeqs
    /\ \A i, j \in 1..Len(task_queue) :
          i # j => task_queue[i].seq # task_queue[j].seq
    /\ \A w1, w2 \in Workers :
          (w1 # w2 /\ wseq[w1] # 0) => wseq[w1] # wseq[w2]

\* One worker stopped with a task in hand while the other holds another task.
C1_Witness ==
    \E w1, w2 \in Workers :
        /\ wpc[w1] = "crashed" /\ wpc[w2] = "push"
        /\ wseq[w1] # wseq[w2]
        /\ deq_count[wseq[w1]] = 1 /\ deq_count[wseq[w2]] = 1

C3_HandlerErrorStillPushes ==
    [][\A w \in Workers :
          (wpc[w] = "push" /\ woutcome[w] = "raise"
               /\ wpc'[w] # "push" /\ wpc'[w] # "crashed")
          => /\ wpc'[w] = "idle"
             /\ result_queue' = Append(result_queue, wresult[w])
             /\ wresult[w].success = FALSE
             /\ wresult[w].message = ErrorMessage
             /\ wresult[w].task_id = pushed[wseq[w]].task_id
             /\ wresult[w].type = pushed[wseq[w]].type]_vars

\* A worker whose error Result is on the channel holds the next task.
C3_Witness ==
    \E w \in Workers :
        /\ wpc[w] = "push"
        /\ \E i \in 1..Len(result_queue) :
              /\ result_queue[i].worker_id = w
              /\ result_queue[i].message = ErrorMessage
              /\ result_queue[i].success = FALSE

ReturnedIds == {results[i].task_id : i \in 1..Len(results)}

\* C4: wait_for_results returns exactly one Result for each awaited id that
\* had a Result on the channel at one of its polls, and nothing else: ids
\* whose Result never arrived are absent, the others are returned.
C4_ReturnsArrivedResults ==
    dpc = "done" =>
        /\ \A i, j \in 1..Len(results) :
              i # j => results[i].task_id # results[j].task_id
        /\ ReturnedIds = seen_at_poll
        /\ ReturnedIds \subseteq Range(task_ids)
        /\ \A i \in 1..Len(results) :
              \E s \in Seqs : /\ pushed[s].task_id = results[i].task_id
                              /\ pushed[s].type = results[i].type
                              /\ res_count[s] = 1

\* Two ids awaited, one Result arrived before the timeout, the other never.
C4_Witness ==
    /\ dpc = "done"
    /\ Cardinality(Range(task_ids)) = 2
    /\ Len(results) = 1
    /\ pending_ids # {}
    /\ result_queue # <<>>

NotAwaited(q) == SelectSeq(q, LAMBDA r : r.task_id \notin Range(task_ids))

\* C5: what wait_for_results removed from the result channel is what it
\* returns: no returned Result is still on the channel, nothing else was
\* removed by it, and its steps leave every Result of another task_id in
\* place.
C5_RemovesWhatItReturns ==
    /\ [](dpc = "done" =>
            /\ \A i \in 1..Len(results) : results[i] \notin Range(result_queue)
            /\ Range(removed) \subseteq Range(results))
    /\ [][(dpc = "scan" /\ dpc' = "loop") =>
            NotAwaited(result_queue') = NotAwaited(result_queue)]_vars

\* A Result was claimed and removed while a Result of a task that is not
\* awaited stays on the channel.
C5_Witness ==
    /\ dpc = "done"
    /\ removed # <<>>
    /\ removed = results
    /\ NotAwaited(result_queue) # <<>>

\* C6: wait_for_results terminates: from every point of its loop it reaches
\* its return; it polls only before the timeout, every poll that leaves ids
\* pending advances the elapsed time, it returns without a further poll
\* once no id is pending, and no step of it touches the task channel or a
\* worker.
C6_WaitTerminates ==
    /\ (dpc \in {"loop", "scan"}) ~> (dpc = "done")
    /\ [](dpc = "scan" => elapsed < timeout)
    /\ [][(dpc = "scan" /\ dpc' = "loop" /\ pending_ids' # {})
             => elapsed' = elapsed + 1]_vars
    /\ [][(dpc = "loop" /\ pending_ids = {} /\ dpc' # "loop")
             => dpc' = "done"]_vars
    /\ [][(dpc \in {"loop", "scan"} /\ dpc' # dpc)
             => UNCHANGED <<task_queue, wpc, wresult, wseq>>]_vars

\* The wait timed out with an id pending whose task is still in a worker's
\* hands.
C6_Witness ==
    /\ dpc = "done"
    /\ pending_ids # {}
    /\ elapsed = timeout
    /\ timeout > 0
    /\ \E w \in Workers :
          wpc[w] = "push" /\ wresult[w].task_id \in pending_ids

\* C7: any two tasks ever pushed onto the task channel carry different
\* task_id values.
C7_TaskIdsUnique ==
    \A i, j \in Seqs : i # j => pushed[i].task_id # pushed[j].task_id

(***************************************************************************)
(* Claims on get_proxy.                                                    *)
(***************************************************************************)

\* ret records the last call of get_proxy: its arguments, the pass that
\* produced the return value and the index of the returned proxy (0 for
\* None).  Every other operation of the pool resets it, so a step with
\* ret' # NoCall is a call of get_proxy on the pool of the state before.
Called == ret'.pass # "nocall"

\* p was used less than or exactly delay seconds before t
UsedWithin(p, t, delay) == p.last_used # NoTime /\ t - p.last_used <= delay

\* p matches the optional country and protocol of the call
Matching(p, country, protocol) ==
    /\ country = None \/ p.country = country
    /\ protocol = None \/ p.protocol = protocol

\* p's last health check failed
CheckFailed(p) == p.last_checked # NoTime /\ ~p.is_working

\* p passes the filters of a call other than the health filter
OtherwiseEligible(p, r, t, delay) ==
    /\ p.fail_count < r.max_fails
    /\ Matching(p, r.country, r.protocol)
    /\ ~UsedWithin(p, t, delay)

\* C8: the proxy get_proxy returns from its primary pass was not used within
\* min_reuse_delay seconds of now, and a never-used proxy that passes the
\* fail-count, country and protocol filters is never held back by the
\* cooldown: the call returns a proxy.
C8_CooldownRespected ==
    [][Called =>
        /\ (ret'.index # 0 /\ ret'.pass = "primary") =>
              ~UsedWithin(proxies[ret'.index], now, min_reuse_delay)
        /\ (\E i \in 1..Len(proxies) :
               /\ proxies[i].last_used = NoTime
               /\ proxies[i].fail_count < ret'.max_fails
               /\ Matching(proxies[i], ret'.country, ret'.protocol))
            => ret'.index # 0]_vars

\* The primary pass skipped a proxy still in its cooldown and returned the
\* other one.
C8_Witness ==
    /\ ret.index # 0 /\ ret.pass = "primary"
    /\ min_reuse_delay > 0
    /\ \E j \in 1..Len(proxies) :
          /\ j # ret.index
          /\ proxies[j].last_used # NoTime
          /\ proxies[j].last_used < now
          /\ UsedWithin(proxies[j], now, min_reuse_delay)
          /\ proxies[j].fail_count <= proxies[ret.index].fail_count
          /\ Matching(proxies[j], ret.country, ret.protocol)

\* C9 as stated: with working_only, the primary pass of get_proxy returns
\* only proxies with a prior successful health check (last_checked set and
\* is_working); a never-checked proxy is returned only by the fallback pass.
C9_PrimaryAdmitsOnlyChecked ==
    [][(Called /\ ret'.working_only /\ ret'.index # 0
           /\ ret'.pass = "primary") =>
        /\ proxies[ret'.index].last_checked # NoTime
        /\ proxies[ret'.index].is_working]_vars

\* C9 amended: with working_only, the primary pass rejects exactly the
\* proxies whose last health check failed; a never-checked proxy is admitted
\* by the primary pass, and a proxy whose check failed is returned only by
\* the fallback pass, which runs only when every proxy that satisfies the
\* other filters has a failed check.
C9_PrimaryRejectsFailedCheck ==
    [][(Called /\ ret'.working_only) =>
        /\ (ret'.index # 0 /\ ret'.pass = "primary") =>
              ~CheckFailed(proxies[ret'.index])
        /\ (ret'.index # 0 /\ CheckFailed(proxies[ret'.index])) =>
              ret'.pass = "fallback"
        /\ ret'.passes = 2 =>
              \A i \in 1..Len(proxies) :
                  OtherwiseEligible(proxies[i], ret', now, min_reuse_delay)
                      => CheckFailed(proxies[i])
        /\ (\E i \in 1..Len(proxies) :
               /\ proxies[i].last_checked = NoTime
               /\ OtherwiseEligible(proxies[i], ret', now, min_reuse_delay))
            => (ret'.passes = 1 /\ ret'.index # 0)]_vars

\* With working_only the primary pass returned a never-checked proxy while
\* the pool also held a proxy whose check had failed.
C9_Witness ==
    /\ ret.working_only /\ ret.index # 0 /\ ret.pass = "primary"
    /\ proxies[ret.index].last_checked = NoTime
    /\ \E j \in 1..Len(proxies) :
          /\ j # ret.index
          /\ CheckFailed(proxies[j])
          /\ Matching(proxies[j], ret.country, ret.protocol)
          /\ proxies[j].fail_count < ret.max_fails

\* a is an earlier last_used than b, never-used first
Earlier(a, b) ==
    \/ a = NoTime /\ b # NoTime
    \/ a # NoTime /\ b # NoTime /\ a < b

\* C10: the proxy get_proxy returns is first among the candidates of the pass
\* that produced it in the order (fail_count, last_used with never-used
\* first); it has fail_count < max_fails, is stamped with last_used = now,
\* and the stamped pool is persisted.
C10_BestCandidateFirst ==
    [][(Called /\ ret'.index # 0) =>
        LET i == ret'.index
            cands == {j \in 1..Len(proxies) :
                        /\ OtherwiseEligible(proxies[j], ret', now, min_reuse_delay)
                        /\ (ret'.working_only /\ ret'.passes = 1)
                              => ~CheckFailed(proxies[j])}
        IN  /\ i \in cands
            /\ \A j \in cands :
                  /\ ~(proxies[j].fail_count < proxies[i].fail_count)
                  /\ ~(/\ proxies[j].fail_count = proxies[i].fail_count
                       /\ Earlier(proxies[j].last_used, proxies[i].last_used))
            /\ proxies[i].fail_count < ret'.max_fails
            /\ proxies'[i].last_used = now
            /\ proxy_file' = File(proxies')]_vars

\* Of two candidates the second of the list was returned, the first having
\* the higher fail count.
C10_Witness ==
    /\ ret.index = 2
    /\ ret.candidates = 2
    /\ proxies[2].last_used = now
    /\ proxies[1].fail_count > proxies[2].fail_count

(***************************************************************************)
(* Claims on the pool's operations.                                        *)
(***************************************************************************)

\* C11: get_proxy is atomic within one process: at most one thread is inside
\* the region of self._lock, and two calls that were in progress at once
\* return the same proxy only if more than min_reuse_delay seconds lie
\* between the two stamps of last_used; with min_reuse_delay > 0 two calls
\* stamping at the same instant never return the same proxy.
C11_SelectAtomic ==
    /\ \A t, u \in Threads :
          (t # u /\ tpc[t] \in {"filter", "mark"}) =>
              tpc[u] \notin {"filter", "mark"}
    /\ \A t, u \in Threads :
          (/\ t # u
           /\ tpc[t] = "done" /\ tpc[u] = "done"
           /\ tret[t] # 0 /\ tret[t] = tret[u]
           /\ tstamp[t] <= tstamp[u])
          => tstamp[u] - tstamp[t] > min_reuse_delay

\* Two overlapping calls on a pool of two proxies, with min_reuse_delay > 0
\* and no time passing, returned the two different proxies.
C11_Witness ==
    /\ overlapped
    /\ min_reuse_delay > 0
    /\ tpc["t1"] = "done" /\ tpc["t2"] = "done"
    /\ tret["t1"] # 0 /\ tret["t2"] # 0
    /\ tret["t1"] # tret["t2"]
    /\ tstamp["t1"] = tstamp["t2"]

\* proxies[i] and list[j] are the same proxy
SameProxy(p, q) == p.ip = q.ip /\ p.port = q.port

\* The step is a bulk check that judged proxies[i] as judged
BulkCheckStep(i, judged) ==
    /\ out'.op = "check_all"
    /\ Len(out'.judged) = Len(proxies)
    /\ out'.judged[i] = judged
    /\ CheckAllProxies(out'.judged, out'.max_fails)

\* C12: every proxy's fail_count is >= 0 in every reachable state of the
\* pool, and a step that increases the fail_count of a proxy is a reported
\* failure, a failed probe of it, or a bulk check that judged it not working.
C12_FailCountNonNegative ==
    /\ [](\A i \in 1..Len(proxies) : proxies[i].fail_count >= 0)
    /\ [][\A i \in 1..Len(proxies), j \in 1..Len(proxies') :
            (/\ SameProxy(proxies[i], proxies'[j])
             /\ proxies'[j].fail_count > proxies[i].fail_count)
            => \/ ReportProxyResult(proxies[i].ip, proxies[i].port, FALSE)
               \/ HealthProbe(i, "bad_status")
               \/ HealthProbe(i, "raise")
               \/ BulkCheckStep(i, FALSE)]_vars

\* A proxy with recorded failures was probed successfully and is back at 0
\* while the other proxy carries a failure.
C12_Witness ==
    /\ Len(proxies) = 2
    /\ \E i, j \in 1..2 :
          /\ proxies[i].fail_count = 0 /\ proxies[i].is_working
          /\ proxies[j].fail_count = MaxFailCount
          /\ CheckFailed(proxies[j])

\* C13: remove_failed_proxies(max_fails) leaves exactly the proxies with
\* fail_count < max_fails, unchanged and in their original order, and returns
\* the number of proxies with fail_count >= max_fails, which it removed.
C13_EvictsExactlyFailed ==
    [][(out'.op = "remove_failed" /\ RemoveFailedProxies(out'.max_fails)) =>
        LET m == out'.max_fails
            failed == {i \in 1..Len(proxies) : proxies[i].fail_count >= m}
            KthKept(k) ==
                CHOOSE i \in 1..Len(proxies) :
                    /\ proxies[i].fail_count < m
                    /\ Cardinality({j \in 1..i :
                                       proxies[j].fail_count < m}) = k
        IN  /\ Len(proxies') = Len(proxies) - Cardinality(failed)
            /\ \A k \in 1..Len(proxies') :
                  proxies'[k] = proxies[KthKept(k)]
            /\ out'.count = Cardinality(failed)]_vars

\* An eviction removed one of two proxies and kept the one below the
\* threshold.
C13_Witness ==
    /\ out.op = "remove_failed"
    /\ out.count = 1
    /\ Len(proxies) = 1
    /\ proxies[1].fail_count < out.max_fails
    /\ out.max_fails <= MaxFailCount

\* C14: a probe of a proxy, whatever its request does, returns; it stamps
\* last_checked, sets is_working to the outcome, sets fail_count to 0 on
\* success and adds exactly 1 to it otherwise, and touches no other proxy.
C14_ProbeRecordsOutcome ==
    [][\A i \in 1..Len(proxies), o \in ProbeOutcomes :
          HealthProbe(i, o) =>
            /\ Len(proxies') = Len(proxies)
            /\ proxies'[i].last_checked = now
            /\ proxies'[i].is_working = (o = "ok")
            /\ proxies'[i].fail_count =
                  IF o = "ok" THEN 0 ELSE proxies[i].fail_count + 1
            /\ SameProxy(proxies'[i], proxies[i])
            /\ proxies'[i].last_used = proxies[i].last_used
            /\ \A j \in 1..Len(proxies) : j # i => proxies'[j] = proxies[j]]_vars

\* A probe failed on a proxy that had been found working: it is marked not
\* working with one failure; the other proxy was never probed.
C14_Witness ==
    /\ Len(proxies) = 2
    /\ \E i, j \in 1..2 :
          /\ i # j
          /\ proxies[i].last_checked = now
          /\ ~proxies[i].is_working
          /\ proxies[i].fail_count = 1
          /\ proxies[j].last_checked = NoTime

\* C15: after check_all_proxies every remaining pool member carries the
\* outcome of its check: judged working it has is_working true, fail_count 0
\* and last_checked set; judged not working it has is_working false and
\* last_checked set.
C15_BulkCheckRecordsOutcome ==
    [][\A i \in 1..Len(proxies), j \in 1..Len(proxies') :
          (SameProxy(proxies[i], proxies'[j])
              /\ (BulkCheckStep(i, TRUE) \/ BulkCheckStep(i, FALSE))) =>
            /\ proxies'[j].last_checked # NoTime
            /\ proxies'[j].is_working = out'.judged[i]
            /\ out'.judged[i] => proxies'[j].fail_count = 0]_vars

\* The step is the bulk import that out' records
BulkImportStep ==
    /\ out'.op = "bulk_add"
    /\ BulkAddFromText(out'.text, out'.protocol)

\* C16: no two proxies of the pool share (ip, port), whatever add_proxy and
\* bulk_add_from_text calls are made; an add_proxy that matches an existing
\* proxy leaves the pool size unchanged and keeps that proxy's fail_count,
\* is_working, last_used and last_checked, and every other proxy.
C16_AddIsUpsert ==
    /\ [](\A i, j \in 1..Len(proxies) :
            SameProxy(proxies[i], proxies[j]) => i = j)
    /\ [][\A ps \in ProxySpecs, i \in 1..Len(proxies) :
            (AddProxy(ps[1], ps[2], ps[3], ps[4])
                /\ proxies[i].ip = ps[1] /\ proxies[i].port = ps[2]) =>
              /\ Len(proxies') = Len(proxies)
              /\ SameProxy(proxies'[i], proxies[i])
              /\ proxies'[i].fail_count = proxies[i].fail_count
              /\ proxies'[i].is_working = proxies[i].is_working
              /\ proxies'[i].last_used = proxies[i].last_used
              /\ proxies'[i].last_checked = proxies[i].last_checked
              /\ \A j \in 1..Len(proxies) : j # i => proxies'[j] = proxies[j]]_vars

\* The used, probed and reported proxy was added again with a country: it
\* kept its history, and the pool holds a second proxy.
C16_Witness ==
    /\ Len(proxies) = 2
    /\ proxies[1].fail_count = 1
    /\ proxies[1].last_used = 1
    /\ proxies[1].is_working
    /\ proxy_file = File(proxies)
    /\ backup_file.exists
    /\ Len(backup_file.data) = 2
    /\ backup_file.data # proxies

\* C17: bulk_add_from_text(text, protocol) gives the proxy of a line with no
\* protocol prefix the supplied default protocol, and the proxy of a line
\* with an explicit prefix that explicit protocol.
C17_DefaultProtocolApplies ==
    [][BulkImportStep =>
        \A k \in 1..Len(out'.text) :
            out'.text[k].kind = "proxy" =>
                \E i \in 1..Len(proxies') :
                    /\ proxies'[i].ip = out'.text[k].ip
                    /\ proxies'[i].port = out'.text[k].port
                    /\ proxies'[i].protocol =
                          IF out'.text[k].protocol = None
                          THEN out'.protocol
                          ELSE out'.text[k].protocol]_vars

\* C18: bulk_add_from_text goes through every line: the count it returns is
\* the number of well-formed proxy lines, malformed, blank and comment lines
\* add nothing, every well-formed line has its proxy in the pool afterwards
\* wherever it stands in the text, the pool grows by the well-formed lines
\* whose (ip, port) it did not hold, and the pool is persisted.
C18_ImportSkipsBadLines ==
    [][BulkImportStep =>
        LET text == out'.text
            good == {k \in 1..Len(text) : text[k].kind = "proxy"}
            Holds(list, ip, port) ==
                \E i \in 1..Len(list) : list[i].ip = ip /\ list[i].port = port
            fresh == {k \in good : ~Holds(proxies, text[k].ip, text[k].port)}
        IN  /\ out'.count = Cardinality(good)
            /\ \A k \in good : Holds(proxies', text[k].ip, text[k].port)
            /\ \A i \in 1..Len(proxies) :
                  SameProxy(proxies'[i], proxies[i])
            /\ Len(proxies') = Len(proxies) + Cardinality(fresh)
            /\ \A i \in 1..Len(proxies') :
                  \/ i <= Len(proxies)
                  \/ \E k \in good : /\ proxies'[i].ip = text[k].ip
                                     /\ proxies'[i].port = text[k].port
            /\ proxy_file' = File(proxies')]_vars

\* A text with a malformed line between two well-formed lines was imported
\* into an empty pool: the count is 2 and the pool holds the two proxies.
C18_Witness ==
    /\ out.op = "bulk_add"
    /\ Len(out.text) = 3
    /\ out.text[2] = BadLine
    /\ out.text[1].kind = "proxy" /\ out.text[3].kind = "proxy"
    /\ out.count = 2
    /\ Len(proxies) = 2
    /\ proxy_file = File(proxies)

(***************************************************************************)
(* Claims on the account registry.                                         *)
(***************************************************************************)

\* The step is the create_account call that acc_ret' records
CreateStep ==
    /\ acc_ret'.op = "create"
    /\ \E password \in PasswordArgs :
          CreateAccount(acc_ret'.email, password, acc_ret'.recovery_email)

\* C19: no two accounts of the registry share an email, whatever
\* create_account, bulk_create_accounts, delete_account and
\* update_platform_status calls are made; a create_account with the email of
\* an existing account fails, with the duplicate error when the
\* recovery_email passes validation, and leaves the collection and the
\* storage file as they were.
C19_EmailsUnique ==
    /\ [](\A i, j \in 1..Len(accounts) :
            accounts[i].email = accounts[j].email => i = j)
    /\ [][(/\ CreateStep
           /\ \E i \in 1..Len(accounts) : accounts[i].email = acc_ret'.email)
          => /\ acc_ret'.result \in {"duplicate", "invalid_recovery"}
             /\ acc_ret'.recovery_email \in
                   {NoAddr, Addr("rec", "example", "com")}
                   => acc_ret'.result = "duplicate"
             /\ accounts' = accounts
             /\ storage_file' = storage_file]_vars

\* A create_account with the email of one of the two stored accounts was
\* refused as a duplicate.
C19_Witness ==
    /\ acc_ret.op = "create"
    /\ acc_ret.result = "duplicate"
    /\ acc_ret.email # NoAddr
    /\ Len(accounts) = 2
    /\ \E i \in 1..2 : accounts[i].email = acc_ret.email
    /\ storage_file = SaveAccounts(accounts)

\* C20: create_account with a supplied email or recovery_email that does not
\* match the address pattern fails with a validation error, and the
\* collection and the storage file are as before the call.
C20_InvalidAddressRejected ==
    [][LET Malformed(e) ==
              e # NoAddr /\ (e.local = "" \/ e.domain = "" \/ Len(e.tld) < 2)
       IN  (CreateStep /\ (Malformed(acc_ret'.email)
                            \/ Malformed(acc_ret'.recovery_email)))
           => /\ acc_ret'.result \in {"invalid_email", "invalid_recovery"}
              /\ Malformed(acc_ret'.email) => acc_ret'.result = "invalid_email"
              /\ accounts' = accounts
              /\ storage_file' = storage_file]_vars

\* A create_account with a well-formed email and a malformed recovery_email
\* was refused on a registry that holds an account, whose file is untouched.
C20_Witness ==
    /\ acc_ret.op = "create"
    /\ acc_ret.result = "invalid_recovery"
    /\ acc_ret.email = Addr("bob", "example", "com")
    /\ Len(accounts) = 1
    /\ accounts[1].email # acc_ret.email
    /\ storage_file = SaveAccounts(accounts)

\* C25: update_platform_status on an email the registry does not hold
\* returns False and changes neither the collection nor the storage file; on
\* a held email it returns True, sets the platform's entry to the given
\* username and registered flag with last_activity stamped, writes the
\* storage file, and leaves the account's other platforms and fields and
\* every other account unchanged.
C25_UpdatePlatformStatus ==
    [][\A pr \in PlatformArgs :
          (/\ acc_ret'.op = "update"
           /\ UpdatePlatformStatus(acc_ret'.email, pr[1], "handle", pr[2]))
          => LET email == acc_ret'.email
                 held == {i \in 1..Len(accounts) : accounts[i].email = email}
             IN  IF held = {}
                 THEN /\ acc_ret'.result = "not_found"
                      /\ accounts' = accounts
                      /\ storage_file' = storage_file
                 ELSE /\ acc_ret'.result = "ok"
                      /\ Len(accounts') = Len(accounts)
                      /\ \A i \in held :
                            /\ accounts'[i].platforms[pr[1]] =
                                  [username |-> "handle", registered |-> pr[2],
                                   last_activity |-> now]
                            /\ DOMAIN accounts'[i].platforms =
                                  DOMAIN accounts[i].platforms \cup {pr[1]}
                            /\ \A p \in DOMAIN accounts[i].platforms \ {pr[1]} :
                                  accounts'[i].platforms[p] =
                                      accounts[i].platforms[p]
                            /\ [accounts'[i] EXCEPT !.platforms = 0] =
                                  [accounts[i] EXCEPT !.platforms = 0]
                      /\ \A j \in (1..Len(accounts)) \ held :
                            accounts'[j] = accounts[j]
                      /\ storage_file' = SaveAccounts(accounts')]_vars

\* The second of two accounts got a new platform entry with registered
\* False; the first account has its default platforms.
C25_Witness ==
    /\ acc_ret.op = "update"
    /\ acc_ret.result = "ok"
    /\ Len(accounts) = 2
    /\ accounts[2].email = acc_ret.email
    /\ DOMAIN accounts[2].platforms =
          {"twitter", "telegram", "discord", "galxe"}
    /\ ~accounts[2].platforms["galxe"].registered
    /\ accounts[2].platforms["galxe"].username = "handle"
    /\ accounts[1].platforms = DefaultPlatforms
    /\ storage_file = SaveAccounts(accounts)

(***************************************************************************)
(* Claims on the worker's handlers                                         *)
(***************************************************************************)

\* C21: after any sequence of registry mutations that write the storage
\* file (create_account, update_platform_status, delete_account, the note
\* _participate_airdrop appends), every record of the storage file has no
\* 'password' field and has a password_hash.
C21_NoPlaintextPasswordStored ==
    \A k \in 1..Len(storage_file.data) :
        /\ "password" \notin DOMAIN storage_file.data[k]
        /\ "password_hash" \in DOMAIN storage_file.data[k]
        /\ storage_file.data[k].password_hash = accounts[k].password_hash

\* The storage file holds two accounts, one registered on twitter and
\* carrying a note, while the accounts in memory carry their passwords.
C21_Witness ==
    /\ Len(storage_file.data) = 2
    /\ \E k \in 1..2 :
          /\ storage_file.data[k].notes = "note"
          /\ storage_file.data[k].platforms["twitter"].registered
    /\ \A k \in 1..2 : accounts[k].password = "generated"

\* C26: _participate_airdrop for a held account whose platforms have no
\* entry for the platform, or an entry with registered False, returns a
\* Result with success False and the not-registered message, and changes
\* neither the accounts (their notes included) nor the storage file.
C26_NotRegisteredRefused ==
    [][\A o \in {"success", "failure"} :
          (/\ hret'.op = "airdrop_participation"
           /\ hret'.platform # ""
           /\ HandleParticipateAirdrop(hret'.email, hret'.platform, o)
           /\ \E i \in 1..Len(accounts) :
                 /\ accounts[i].email = hret'.email
                 /\ \/ hret'.platform \notin DOMAIN accounts[i].platforms
                    \/ ~accounts[i].platforms[hret'.platform].registered)
          => /\ ~hret'.success
             /\ ~hret'.raised
             /\ hret'.message = "Account not registered"
             /\ accounts' = accounts
             /\ storage_file' = storage_file]_vars

\* A participation on a platform the held account has no entry for was
\* refused.
C26_Witness ==
    /\ hret.op = "airdrop_participation"
    /\ hret.message = "Account not registered"
    /\ \E i \in 1..Len(accounts) :
          /\ accounts[i].email = hret.email
          /\ hret.platform \notin DOMAIN accounts[i].platforms
          /\ accounts[i].notes = ""

\* C27 (as claimed): when _register_platform has the failure outcome for an
\* account with a proxy assigned, the fail_count of the pool's proxy with
\* that ip and port grows by exactly 1 and the Result carries the
\* registration-failure message.
C27_FailureReportedToPool ==
    [][(/\ hret'.op = "register_platform"
        /\ hret'.platform # ""
        /\ HandleRegisterPlatform(hret'.email, hret'.platform, "failure")
        /\ \E i \in 1..Len(accounts) :
              /\ accounts[i].email = hret'.email
              /\ accounts[i].proxy # NoAddress)
       => LET i == GetAccount(accounts, hret'.email)
          IN  /\ \A k \in 1..Len(proxies) :
                    (/\ proxies[k].ip = accounts[i].proxy.ip
                     /\ proxies[k].port = accounts[i].proxy.port)
                    => proxies'[k].fail_count = proxies[k].fail_count + 1
              /\ ~hret'.success
              /\ hret'.message = "Failed to register"]_vars

\* C28: a Result of _register_platform with success True means the account's
\* entry for the platform has registered True and a non-empty username (the
\* one the Result carries); a Result with success False leaves the accounts,
\* their platform maps included, and the storage file as they were.
C28_SuccessMeansRegistered ==
    [][\A o \in {"success", "failure"} :
          (/\ hret'.op = "register_platform"
           /\ HandleRegisterPlatform(hret'.email, hret'.platform, o))
          => IF hret'.success
             THEN \E i \in 1..Len(accounts') :
                     /\ accounts'[i].email = hret'.email
                     /\ hret'.platform \in DOMAIN accounts'[i].platforms
                     /\ accounts'[i].platforms[hret'.platform].registered
                     /\ accounts'[i].platforms[hret'.platform].username # ""
                     /\ accounts'[i].platforms[hret'.platform].username =
                           hret'.platform_username
             ELSE /\ accounts' = accounts
                  /\ storage_file' = storage_file]_vars

\* A registration on twitter succeeded for an account that has a proxy.
C28_Witness ==
    /\ hret.op = "register_platform"
    /\ hret.success
    /\ \E i \in 1..Len(accounts) :
          /\ accounts[i].email = hret.email
          /\ accounts[i].proxy # NoAddress
          /\ accounts[i].platforms["twitter"].registered

\* C29: _create_account with use_proxy set, when get_proxy finds no proxy in
\* either pass, gives a Result with success False and the no-proxy message
\* that the handler returned (nothing was raised), and creates no account.
C29_NoProxyIsAFailureResult ==
    [][\A domain \in DomainArgs, o \in {"success", "failure"} :
          (/\ hret'.op = "create_account"
           /\ AvailableSet(proxies, None, 3, None, FALSE, now,
                           min_reuse_delay) = {}
           /\ HandleCreateAccount(domain, TRUE, o))
          => /\ ~hret'.success
             /\ ~hret'.raised
             /\ hret'.message = "No proxies available"
             /\ accounts' = accounts
             /\ storage_file' = storage_file]_vars

\* A create_account task found the pool's only proxy in its cooldown: the
\* registry still holds the one account that got the proxy.
C29_Witness ==
    /\ hret.op = "create_account"
    /\ hret.message = "No proxies available"
    /\ Len(proxies) = 1
    /\ Len(accounts) = 1
    /\ accounts[1].proxy # NoAddress

(***************************************************************************)
(* Claims on the stores                                                    *)
(***************************************************************************)

\* C22 (as claimed): a registry that loads a file written by save_accounts
\* holds the same accounts (email, password_hash, platforms, notes of each),
\* and saving them again gives the same file.
C22_SaveLoadRoundTrip ==
    [][(LoadAccounts /\ storage_file = SaveAccounts(accounts))
       => /\ Len(seen'.list) = Len(accounts)
          /\ \A k \in 1..Len(accounts) :
                /\ seen'.list[k].email = accounts[k].email
                /\ seen'.list[k].password_hash = accounts[k].password_hash
                /\ seen'.list[k].platforms = accounts[k].platforms
                /\ seen'.list[k].notes = accounts[k].notes
          /\ SaveAccounts(seen'.list) = storage_file]_vars

\* C23 (as claimed): a load with no file gives the empty collection; a load
\* of a file that does not parse or holds a record that cannot be built
\* renames the file to a backup and gives the empty collection, for the
\* account store and for the proxy store.
C23_LoadRecoversFromCorruptFile ==
    [][/\ LoadAccounts
          => IF ~storage_file.exists
             THEN seen'.list = <<>> /\ storage_file' = storage_file
             ELSE ~LoadRecords("accounts", storage_file.data).ok
                  => /\ seen'.list = <<>>
                     /\ storage_file' = NoFile
                     /\ renamed_file' = storage_file
       /\ LoadProxies
          => IF ~proxy_file.exists
             THEN seen'.list = <<>> /\ proxy_file' = proxy_file
             ELSE ~LoadRecords("proxies", proxy_file.data).ok
                  => /\ seen'.list = <<>>
                     /\ proxy_file' = NoFile]_vars

\* C24 (as claimed): a load that runs while a save of the same store is in
\* progress reads the file as it was when the save began (or finds it
\* renamed away by a load) or as the save leaves it, never anything in
\* between, for the account store and for the proxy store.
C24_SaveAtomicTowardsReaders ==
    [][/\ (LoadAccounts /\ saving.at = "tmp_written")
          => seen'.file \in {saving.old, SaveAccounts(accounts), NoFile}
       /\ (LoadProxies /\ saving.at \in {"backup_copied", "opened"})
          => seen'.file \in {saving.old, File(proxies), NoFile}]_vars

(***************************************************************************)
(* Claims on the service loops                                             *)
(***************************************************************************)

\* C30: neither the worker loop nor the proxy-checker loop exits on an
\* exception raised in an iteration: the loop goes to its pause and from the
\* pause always starts another iteration; a scheduled worker is again and
\* again at its blpop and again and again leaves it, that is, it keeps
\* attempting pops.
C30_LoopsSurviveFailures ==
    /\ [](wpc["worker-1"] # "exited" /\ cpc # "exited")
    /\ (wpc["worker-1"] = "pause") ~> (wpc["worker-1"] = "idle")
    /\ (cpc = "pause") ~> (cpc = "run")
    /\ []<>(wpc["worker-1"] = "idle")
    /\ []<>(wpc["worker-1"] # "idle")

\* The worker pauses after an rpush that raised, having dequeued a task whose
\* Result was never pushed, while the checker pauses after a check that
\* could not publish its statistics.
C30_Witness ==
    /\ wpc["worker-1"] = "pause"
    /\ cpc = "pause"
    /\ \E k \in 1..Len(pushed) : deq_count[k] = 1 /\ res_count[k] = 0

(***************************************************************************)
(* Claims on the dashboard's effects                                       *)
(***************************************************************************)

\* C31 (as claimed): a request handled by the dashboard leaves the result
\* channel and the store files as they are and changes the task channel only
\* by appending to it, so a Result a worker pushed stays on the result
\* channel until wait_for_results removes it.
C31_DashboardOnlyAppendsTasks ==
    [][(ApiClearResults \/ \E count \in 1..MaxTasks : ApiCreateAccounts(count))
       => /\ result_queue' = result_queue
          /\ Len(task_queue') >= Len(task_queue)
          /\ SubSeq(task_queue', 1, Len(task_queue)) = task_queue
          /\ UNCHANGED <<proxy_file, backup_file, storage_file>>]_vars

(***************************************************************************)
(* Claims on passwords                                                     *)
(***************************************************************************)

\* C32 (as claimed): the password generate_password(length) returns has
\* exactly length characters and holds a character of each of the four
\* classes, for every length.
C32_GeneratedHasRequestedLength ==
    acc_ret.op = "generate_password"
    => /\ Len(acc_ret.password) = acc_ret.length
       /\ \A c \in 1..4 : Range(acc_ret.password) \cap CharClasses[c] # {}

\* C32 (amended): the password generate_password(length) returns holds a
\* character of each of the four classes and only characters of the four
\* classes; it has exactly length characters when length is at least 4, and
\* 4 characters when length is smaller.
C32_GeneratedHasEveryClass ==
    acc_ret.op = "generate_password"
    => /\ Len(acc_ret.password) =
             IF acc_ret.length >= 4 THEN acc_ret.length ELSE 4
       /\ \A c \in 1..4 : Range(acc_ret.password) \cap CharClasses[c] # {}
       /\ Range(acc_ret.password) \subseteq UNION Range(CharClasses)

\* A password of 5 characters was generated, the fifth character being a
\* second digit and the shuffle having moved the special character first.
C32_Witness ==
    /\ acc_ret.op = "generate_password"
    /\ acc_ret.length = 5
    /\ Len(acc_ret.password) = 5
    /\ acc_ret.password[1] = "!"
    /\ Cardinality({i \in 1..5 : acc_ret.password[i] = "1"}) = 2

C34_SingleLevelFallback ==
    [][Called =>
        /\ ret'.passes \in {1, 2}
        /\ ~ret'.working_only => ret'.passes = 1
        /\ ret'.passes = 2 => ret'.pass \in {"fallback", "none"}
        /\ (ret'.index = 0) <=>
              ~\E i \in 1..Len(proxies) :
                  OtherwiseEligible(proxies[i], ret', now, min_reuse_delay)]_vars

\* A call with working_only True ran both passes over a pool that is not
\* empty and returned None.
C34_Witness ==
    /\ ret.pass = "none"
    /\ ret.passes = 2
    /\ ret.working_only
    /\ Len(proxies) > 0

\* C35 (as claimed): after test_proxy on a proxy whose request got a status
\* other than 200 or raised, the proxy's response_time is None, whatever it
\* was before.
C35_FailedProbeHasNoResponseTime ==
    [][\A i \in 1..Len(proxies), o \in ProbeOutcomes \ {"ok"} :
          HealthProbe(i, o) => proxies'[i].response_time = NoTime]_vars

(***************************************************************************)
(* Further claims on the stores                                            *)
(***************************************************************************)

\* C36 (as claimed): a save_proxies that finds proxies.json copies it to
\* proxies.json.bak before writing; and once a save has found a loadable
\* proxies.json, a load_proxies at any later moment, whatever saves were
\* interrupted in between, gives either the list the saves write or the list
\* of that prior file.
C36_BackupRecoversPriorList ==
    [][/\ (SaveProxiesSteps /\ saving.at = "idle" /\ proxy_file.exists)
          => backup_file' = proxy_file
       /\ (LoadProxies /\ saving.prior.exists)
          => seen'.list \in {proxies, saving.prior.data}]_vars

\* C37 (as claimed): an account that load_accounts builds from a record
\* with a plaintext password and no password_hash has a password_hash that
\* verifies against that password and no longer holds the password; the
\* record save_accounts writes for it has the password_hash and no password.
C37_LegacyRecordRehashed ==
    [][LoadAccounts
       => \A k \in 1..Len(seen'.list) :
             LET rec == storage_file.data[k]
                 account == seen'.list[k]
             IN  "password_hash" \notin DOMAIN rec
                 => /\ VerifyPassword(account.password_hash, rec.password)
                    /\ account.password # rec.password
                    /\ "password" \notin DOMAIN Stored(account)
                    /\ Stored(account).password_hash = account.password_hash]_vars

(***************************************************************************)
(* Claims on the state the processes share.                                *)
(***************************************************************************)

\* C38 (as claimed): an import cycle that found text leaves the key
\* 'import_proxies' cleared, whatever the number of well-formed lines, when
\* the dashboard has not set the key during the cycle; a text the dashboard
\* set during the cycle is still under the key when the cycle ends; and
\* every text a cycle reads was set since the previous cycle read the key,
\* so that no text is imported in two cycles.
C38_ImportKeyConsumedOnce ==
    [][/\ (ImportDelete /\ ~key_fresh) => import_proxies' = <<>>
       /\ (ImportDelete /\ key_fresh) => import_proxies' = import_proxies
       /\ ImportGet => key_fresh]_vars

\* C39 (as claimed): create_accounts returns the Account of every
\* successful create_account Result, and a register_platform task for an
\* account the first worker holds finds that account when the second worker
\* handles it.
C39_CreatedAccountVisibleToOthers ==
    [][/\ (CreateAccountsReturn /\ hret.success)
          => /\ Len(dret'.returned) = 1
             /\ dret'.returned[1].email = hret.email
       /\ \A i \in 1..Len(accounts), o \in {"success", "failure"} :
             HandleRegisterPlatformOther(accounts[i].email, "twitter", o)
             => hret'.message # "Account not found"]_vars

\* C40 (as claimed): participate_in_airdrop returns the account of a
\* successful airdrop_participation Result, and no account for a Result
\* that is not a success.
C40_ParticipatedAreTheSuccesses ==
    [][ParticipateInAirdropReturn
       => IF hret.success
          THEN /\ Len(dret'.returned) = 1
               /\ dret'.returned[1].email = hret.email
          ELSE dret'.returned = <<>>]_vars

====
